---- MODULE Spec2Model ----
(***************************************************************************)
(* Signal/position state machine and event broadcast of the IPC UI server: *)
(* IPCStrategy (ipc_strategy.py), SimpleTestStrategy                       *)
(* (simple_test_strategy.py) and the tick relay, prediction poller,        *)
(* heartbeat loop and broadcast of IPCUIServer (ipc_ui_server.py).         *)
(*                                                                         *)
(* Prices are integers (one unit = one price point); pnl_percentage is the *)
(* exact rational pnl * 100 / entry_price, kept as numerator/denominator.  *)
(* Wall-clock time is an integer number of hours (IPC time limit).         *)
(* A Python None is the empty tuple; an optional number n is <<n>>.        *)
(***************************************************************************)
EXTENDS Integers, Sequences, FiniteSets, TLC

VARIABLES
    \* ---- IPCStrategy fields (ipc_strategy.py:56-74)
    active_signal,          \* None or the position record
    trailing_stop_active,
    peak_price,             \* None or <<price>>
    event_counter,
    state_sequence,         \* self._state_sequence
    strategy_state,         \* the dict last built by _update_strategy_state
    session_filter,         \* constructor parameter, fixed per run
    \* ---- IPCUIServer fields (ipc_ui_server.py:82-98)
    ws_clients,             \* registered observers
    latest_tick,            \* None or <<tick>>
    last_predicted_times,   \* per horizon: the predicted_time the poller saw last
    test_mode,              \* which strategy IPCUIServer.start constructs
    \* ---- SimpleTestStrategy (simple_test_strategy.py:85-132)
    test,                   \* the object's fields, None when not constructed
    sequence_tasks,         \* every _run_strategy_sequence task: where it is, since when
    \* ---- tasks of the event loop
    pc,                     \* per task: where it is suspended
    bc,                     \* per task: the broadcast it is suspended in
    tickArg,                \* tick_data local of the relay loop
    predArg,                \* latest local of the poller loop
    \* ---- environment
    now,                    \* wall clock: hours (IPCStrategy runs), seconds (test runs)
    broken,                 \* observers whose transport fails a send
    \* ---- observation (history of what was stamped and delivered)
    log,                    \* every stamp, in order
    scn,                    \* progress through the end-to-end scenario
    recv,                   \* what the watched observer was last delivered
    ref,                    \* the same calls made on a strategy nobody observes
    last                    \* the last call made on the strategy, with its input

stratVars == <<active_signal, trailing_stop_active, peak_price, event_counter,
               state_sequence, strategy_state>>
vars == <<active_signal, trailing_stop_active, peak_price, event_counter,
          state_sequence, strategy_state, session_filter, ws_clients, latest_tick,
          last_predicted_times,
          pc, bc, tickArg, predArg, now, broken, log, scn, recv, last,
          test_mode, test, sequence_tasks, ref>>
testVars == <<test_mode, test, sequence_tasks>>

-----------------------------------------------------------------------------
(* Bounds of the model *)
MaxEvents == 3          \* stamps per run
MaxTime == 3            \* hours the clock runs
MaxServerEvents == 3    \* stamps per run of the server

(* Strategy parameters: the defaults of IPCStrategy.__init__ *)
delta == 500
initial_stop_loss_points == 2000
trailing_activation_offset == 1000
trailing_stop_distance == 900
max_position_duration_hours == 2

None == <<>>
Some(v) == <<v>>
Abs(x) == IF x < 0 THEN -x ELSE x

-----------------------------------------------------------------------------
(* JSON values and their conversion *)

\* float(x) for a JSON value x: a number or numeric string converts, null
\* raises TypeError, any other string raises ValueError.
Float(x) ==
    IF x.k = "num" THEN [ok |-> TRUE, v |-> x.v] ELSE [ok |-> FALSE, v |-> 0]

Num(n) == [k |-> "num", v |-> n]

\* tick_data.get("p", 0): a tick without the field yields the default 0.
TickGetP(tick_data) == IF tick_data.k = "missing" THEN Num(0) ELSE tick_data

\* prediction_time.astimezone(ZoneInfo("America/New_York")) for an instant
\* given as seconds since Monday 00:00 UTC and the UTC offset (hours behind
\* UTC) New York has at that instant: 5 in winter, 4 under daylight saving.
NyTime(time) ==
    LET local == (time.t - time.off * 3600) % 604800
    IN  [weekday |-> local \div 86400, hour |-> (local % 86400) \div 3600]

\* Faulty variant: the session still accepts the hour that starts at 11:00.
OutsideSession_late(time) ==
    LET ny_time == NyTime(time)
    IN  ny_time.weekday >= 5 \/ ny_time.hour < 8 \/ ny_time.hour > 11

\* The session test of check_signal_trigger: TRUE when the prediction is
\* rejected (weekend, or local hour outside 8..10).
OutsideSession(time) ==
    LET ny_time == NyTime(time)
    IN  ny_time.weekday >= 5 \/ ny_time.hour < 8 \/ ny_time.hour >= 11

-----------------------------------------------------------------------------
(* IPCStrategy as functions of the strategy object S *)

Strat ==
    [active_signal |-> active_signal, trailing_stop_active |-> trailing_stop_active,
     peak_price |-> peak_price, event_counter |-> event_counter,
     state_sequence |-> state_sequence, strategy_state |-> strategy_state]

NoEvent == [type |-> "none"]

\* A call's result: the object after it, the event handed to broadcast (or
\* NoEvent) and how the call ended.
Ret(S, ev, how) == [S |-> S, ev |-> ev, how |-> how]

\* Faulty variant: a stamp without a position keeps the fields of the last
\* snapshot and only renews its seq.
Snapshot_stale(S, n) ==
    IF S.active_signal = None
    THEN [f \in DOMAIN S.strategy_state \cup {"seq"} |->
            IF f = "seq" THEN n ELSE S.strategy_state[f]]
    ELSE [SL |-> S.active_signal.stop_loss,
          TP |-> S.active_signal.target,
          ENTRY |-> S.active_signal.entry_price,
          TSA |-> S.active_signal.trailing_activation_price,
          TRAILING_STOP_ACTIVE |-> S.trailing_stop_active,
          seq |-> n]

\* The dict _update_strategy_state builds for sequence number n.
Snapshot(S, n) ==
    IF S.active_signal = None
    THEN [seq |-> n]
    ELSE [SL |-> S.active_signal.stop_loss,
          TP |-> S.active_signal.target,
          ENTRY |-> S.active_signal.entry_price,
          TSA |-> S.active_signal.trailing_activation_price,
          TRAILING_STOP_ACTIVE |-> S.trailing_stop_active,
          seq |-> n]

\* Faulty variant: the stamp reuses the sequence number.
NextSequence_same(S) == S.state_sequence

NextSequence(S) == S.state_sequence + 1

UpdateStrategyState(S) ==
    LET n == NextSequence(S)
    IN  [S EXCEPT !.state_sequence = n, !.strategy_state = Snapshot(S, n)]

StrategyEvent(S, position, reason, event_data) ==
    [type |-> "strategy_event", event_n |-> S.event_counter, position |-> position,
     reason |-> reason, strategy_state |-> S.strategy_state, event_data |-> event_data]

\* Faulty variant: the guard never sees the open position.
PositionExists_never(S) == FALSE

\* The guard of check_signal_trigger: `if self.active_signal`.
PositionExists(S) == S.active_signal # None

\* Faulty variant: a difference of exactly delta passes.
BelowThreshold_strict(price_diff) == Abs(price_diff) < delta

\* The comparison of line 129.
BelowThreshold(price_diff) == Abs(price_diff) <= delta

SignalDirection(price_diff) == IF price_diff > 0 THEN "LONG" ELSE "SHORT"

\* Faulty variant: the stop of a SHORT position is not mirrored.
InitialStop_unmirrored(direction, entry_price) == entry_price - initial_stop_loss_points

InitialStop(direction, entry_price) ==
    IF direction = "LONG" THEN entry_price - initial_stop_loss_points
    ELSE entry_price + initial_stop_loss_points

TrailingActivation(direction, entry_price) ==
    IF direction = "LONG" THEN entry_price + trailing_activation_offset
    ELSE entry_price - trailing_activation_offset

CheckSignalTrigger(S, prediction, tick_data, clock, filter) ==
    IF PositionExists(S) THEN Ret(S, NoEvent, "active")
    ELSE IF prediction.prediction_time.k = "none" THEN Ret(S, NoEvent, "no_time")
    ELSE IF prediction.prediction_time.k = "bad" THEN Ret(S, NoEvent, "error")
    ELSE IF ~Float(TickGetP(tick_data)).ok THEN Ret(S, NoEvent, "error")
    ELSE
    LET current_price_pred == prediction.prediction_price
        predicted_price == prediction.predicted_price
        current_tick_price == Float(TickGetP(tick_data)).v
        price_diff == predicted_price - current_price_pred
    IN  IF BelowThreshold(price_diff) THEN Ret(S, NoEvent, "delta")
        ELSE IF filter /\ OutsideSession(prediction.prediction_time)
        THEN Ret(S, NoEvent, "session")
        ELSE
        LET direction == SignalDirection(price_diff)
            entry_price == current_tick_price
            stop_loss == InitialStop(direction, entry_price)
            trailing_activation == TrailingActivation(direction, entry_price)
            S1 == [S EXCEPT
                    !.active_signal =
                        [direction |-> direction, entry_price |-> entry_price,
                         stop_loss |-> stop_loss, target |-> predicted_price,
                         trailing_activation_price |-> trailing_activation,
                         entry_time |-> clock],
                    !.peak_price = Some(entry_price),
                    !.trailing_stop_active = FALSE,
                    !.event_counter = S.event_counter + 1]
            S2 == UpdateStrategyState(S1)
        IN  Ret(S2,
                StrategyEvent(S2, "OPEN", "SIGNAL_DETECTED",
                    [signal_direction |-> direction, entry_price |-> entry_price,
                     predicted_price |-> predicted_price, stop_loss_price |-> stop_loss,
                     trailing_activation_price |-> trailing_activation]),
                "open")

\* Faulty variant: the PnL of a SHORT position is taken as for a LONG one.
Pnl_long(direction, entry_price, price) == price - entry_price

Pnl(direction, entry_price, price) ==
    IF direction = "LONG" THEN price - entry_price ELSE entry_price - price

\* (pnl / entry_price) * 100 as an exact fraction; the caller has excluded
\* entry_price = 0, where the division raises ZeroDivisionError.
PnlPct(pnl, entry_price) == [num |-> pnl * 100, den |-> entry_price]

TimeLimitExceeded(S, clock) ==
    clock - S.active_signal.entry_time > max_position_duration_hours

ClosePosition(S, exit_price, reason) ==
    IF S.active_signal = None THEN Ret(S, NoEvent, "none")
    ELSE
    LET direction == S.active_signal.direction
        entry_price == S.active_signal.entry_price
        stop_loss == S.active_signal.stop_loss
        pnl == Pnl(direction, entry_price, exit_price)
    IN  IF entry_price = 0 THEN Ret(S, NoEvent, "error")
        ELSE
        LET S1 == [S EXCEPT !.event_counter = S.event_counter + 1,
                            !.active_signal = None,
                            !.trailing_stop_active = FALSE,
                            !.peak_price = None]
            S2 == UpdateStrategyState(S1)
        IN  Ret(S2,
                StrategyEvent(S2, "CLOSE", reason,
                    [direction |-> direction, entry_price |-> entry_price,
                     stop_loss_price |-> stop_loss, current_price |-> exit_price,
                     pnl |-> pnl, pnl_percentage |-> PnlPct(pnl, entry_price)]),
                "close")

StopHit(direction, current_price, stop_loss) ==
    IF direction = "LONG" THEN current_price <= stop_loss ELSE current_price >= stop_loss

\* Faulty variant: a price equal to the activation price does not activate.
ActivationReached_strict(direction, current_price, activation) ==
    IF direction = "LONG" THEN current_price > activation ELSE current_price < activation

ActivationReached(direction, current_price, activation) ==
    IF direction = "LONG" THEN current_price >= activation ELSE current_price <= activation

\* Faulty variant: a price equal to the peak counts as a new peak.
NewPeak_orEqual(direction, current_price, peak) ==
    IF direction = "LONG" THEN current_price >= peak ELSE current_price <= peak

\* Faulty variant: a SHORT position takes its peaks on the LONG side.
NewPeak_unmirrored(direction, current_price, peak) == current_price > peak

NewPeak(direction, current_price, peak) ==
    IF direction = "LONG" THEN current_price > peak ELSE current_price < peak

\* Faulty variant: the stop is put at the peak itself.
TrailedStop_atPeak(direction, peak) == peak

\* Faulty variant: the trailed stop of a SHORT position is not mirrored.
TrailedStop_unmirrored(direction, peak) == peak - trailing_stop_distance

TrailedStop(direction, peak) ==
    IF direction = "LONG" THEN peak - trailing_stop_distance
    ELSE peak + trailing_stop_distance

\* The two trailing branches share their mutation and event shape.
Trail(S, current_price, reason, activate) ==
    LET direction == S.active_signal.direction
        new_sl == TrailedStop(direction, current_price)
        S1 == [S EXCEPT !.trailing_stop_active = IF activate THEN TRUE ELSE @,
                        !.peak_price = Some(current_price),
                        !.active_signal.stop_loss = new_sl,
                        !.event_counter = S.event_counter + 1]
        S2 == UpdateStrategyState(S1)
    IN  Ret(S2,
            StrategyEvent(S2, "UPDATE", reason,
                [direction |-> direction, entry_price |-> S.active_signal.entry_price,
                 stop_loss_price |-> new_sl, peak_price |-> current_price,
                 trailing_stop_activated |-> TRUE, current_price |-> current_price]),
            "update")

CheckPositionManagement(S, tick_data, clock) ==
    IF S.active_signal = None THEN Ret(S, NoEvent, "none")
    ELSE IF ~Float(TickGetP(tick_data)).ok THEN Ret(S, NoEvent, "error")
    ELSE
    LET current_price == Float(TickGetP(tick_data)).v
        direction == S.active_signal.direction
        entry_price == S.active_signal.entry_price
        stop_loss == S.active_signal.stop_loss
    IN  IF TimeLimitExceeded(S, clock)
        THEN IF entry_price = 0 THEN Ret(S, NoEvent, "error")
             ELSE
             LET pnl == Pnl(direction, entry_price, current_price)
                 S1 == [S EXCEPT !.event_counter = S.event_counter + 1,
                                 !.active_signal = None,
                                 !.trailing_stop_active = FALSE]
                 S2 == UpdateStrategyState(S1)
             IN  Ret(S2,
                     StrategyEvent(S2, "CLOSE", "POSITION_TIME_LIMIT_HIT",
                         [direction |-> direction, entry_price |-> entry_price,
                          current_price |-> current_price, pnl |-> pnl,
                          pnl_percentage |-> PnlPct(pnl, entry_price)]),
                     "close")
        ELSE IF StopHit(direction, current_price, stop_loss)
        THEN ClosePosition(S, current_price, "STOP_LOSS_HIT")
        ELSE IF S.trailing_stop_active
        THEN IF NewPeak(direction, current_price, S.peak_price[1])
             THEN Trail(S, current_price, "TRAILING_STOP_UPDATED", FALSE)
             ELSE Ret(S, NoEvent, "noop")
        ELSE IF ActivationReached(direction, current_price,
                                  S.active_signal.trailing_activation_price)
        THEN Trail(S, current_price, "TRAILING_STOP_ACTIVATED", TRUE)
        ELSE Ret(S, NoEvent, "noop")

\* get_strategy_state: a copy of the current dict.
GetStrategyState(S) == S.strategy_state

-----------------------------------------------------------------------------
(* What is observed of a run *)

Apply(S) ==
    /\ active_signal' = S.active_signal
    /\ trailing_stop_active' = S.trailing_stop_active
    /\ peak_price' = S.peak_price
    /\ event_counter' = S.event_counter
    /\ state_sequence' = S.state_sequence
    /\ strategy_state' = S.strategy_state

\* One entry per stamp: the seq, whether the position was absent when it was
\* stamped, and the event emitted with it.
Stamp(R) ==
    [seq |-> R.S.state_sequence, absent |-> R.S.active_signal = None,
     position |-> R.ev.position, reason |-> R.ev.reason]

Stamped(R) == IF R.ev = NoEvent THEN log ELSE Append(log, Stamp(R))

NoCall == [op |-> "none"]
Call(op, arg, R) == [op |-> op, arg |-> arg, how |-> R.how, ev |-> R.ev]

\* The end-to-end scenario of the specification, followed input by input:
\* 0 fresh, 1 after the prediction, 2 after tick 101000, 3 after tick 100050,
\* 9 once any other input has been handled.
ScenarioPrediction(p, tick) ==
    /\ p.prediction_price = 100000 /\ p.predicted_price = 100700
    /\ p.prediction_time.k = "ok"
    /\ tick = Num(100000)

ScnAfterSignal(p, tick) ==
    IF scn = 0 /\ ~session_filter /\ ScenarioPrediction(p, tick) THEN 1 ELSE 9

ScnAfterTick(tick, limit) ==
    IF scn = 1 /\ tick = Num(101000) /\ ~limit THEN 2
    ELSE IF scn = 2 /\ tick = Num(100050) /\ ~limit THEN 3
    ELSE 9

-----------------------------------------------------------------------------
(* The strategy object called directly: any call, any argument, in any order *)

serverVars == <<ws_clients, latest_tick, last_predicted_times, pc, bc, tickArg, predArg,
                broken, recv>>

CallCheckSignalTrigger(prediction, tick_data) ==
    LET R == CheckSignalTrigger(Strat, prediction, tick_data, now, session_filter)
    IN  /\ R.ev = NoEvent \/ Len(log) < MaxEvents
        /\ Apply(R.S)
        /\ log' = Stamped(R)
        /\ last' = Call("check_signal_trigger",
                        [prediction |-> prediction, tick_data |-> tick_data], R)
        /\ scn' = ScnAfterSignal(prediction, tick_data)
        /\ UNCHANGED <<testVars, session_filter, now, serverVars, ref>>

CallCheckPositionManagement(tick_data) ==
    LET R == CheckPositionManagement(Strat, tick_data, now)
    IN  /\ R.ev = NoEvent \/ Len(log) < MaxEvents
        /\ Apply(R.S)
        /\ log' = Stamped(R)
        /\ last' = Call("check_position_management", [tick_data |-> tick_data], R)
        /\ scn' = ScnAfterTick(tick_data,
                               active_signal # None /\ TimeLimitExceeded(Strat, now))
        /\ UNCHANGED <<testVars, session_filter, now, serverVars, ref>>

\* Time passes.
ClockTick ==
    /\ now < MaxTime
    /\ now' = now + 1
    /\ UNCHANGED <<testVars, stratVars, session_filter, serverVars, log, scn, ref, last>>

-----------------------------------------------------------------------------
(* IPCUIServer: tasks, broadcast, observers *)

Clients == {"a", "b"}
Tasks == {"tick", "pred", "hb"}

\* The horizons the poller asks for, in hours.
Timeframes == {1, 2, 4}

IdleBc == [active |-> FALSE]

\* The relay's and the poller's loop variables while they hold nothing.
NoTick == [k |-> "none", v |-> 0]
NoPrediction == [tf |-> 0]

\* A broadcast suspended in ws.send_str(cur): the serialized message, the
\* registered observers the set iterator has still to yield, the size the
\* iterator saw when it was created, and the failed observers so far.
Ctx(msg, cur, clients) ==
    [active |-> TRUE, msg |-> msg, cur |-> cur, todo |-> clients \ {cur},
     size |-> Cardinality(clients), disconnected |-> {}]

HeartbeatMessage(S) ==
    [type |-> "strategy_heartbeat", strategy_state |-> GetStrategyState(S)]

\* The snapshot a message carries, if it carries one with a seq.
HasSnapshot(msg) ==
    /\ msg.type \in {"strategy_event", "strategy_heartbeat"}
    /\ "seq" \in DOMAIN msg.strategy_state

\* The record of one observer's deliveries: the observer watched (a run
\* watches one observer, any of them, or none), a bit that flips with every
\* snapshot delivered, the seq of the last snapshot delivered, the task that
\* published it, and per publishing task the last snapshot delivered from it.
NoRecv(c) ==
    [c |-> c, bit |-> FALSE, any |-> None, from |-> "none", src |-> [t \in Tasks |-> None]]

\* What a frame written to the observer's transport records at the observer.
Delivered(r, to, task, msg) ==
    IF to # r.c \/ ~HasSnapshot(msg) THEN r
    ELSE [r EXCEPT
            !.bit = ~r.bit,
            !.any = Some(msg.strategy_state.seq),
            !.from = task,
            !.src[task] = Some([seq |-> msg.strategy_state.seq, type |-> msg.type])]

\* Faulty variant: the frame is serialized when the send begins, from the
\* strategy's snapshot of that moment.
Sent_live(cur, task, msg) ==
    IF cur \in broken THEN recv
    ELSE Delivered(recv, cur, task,
                   IF HasSnapshot(msg) /\ msg.type = "strategy_event" /\ pc[task] = "event"
                   THEN [msg EXCEPT !.strategy_state = strategy_state]
                   ELSE msg)

\* ws.send_str(cur) begins: the frame is written to cur's transport at once,
\* ahead of whatever is sent to cur later, unless the transport has died; the
\* await that follows is the wait for the transport to drain.
Sent(cur, task, msg) ==
    IF cur \in broken THEN recv ELSE Delivered(recv, cur, task, msg)

\* A strategy as its constructor leaves it.
NewStrategy ==
    [active_signal |-> None, trailing_stop_active |-> FALSE, peak_price |-> None,
     event_counter |-> 0, state_sequence |-> 0, strategy_state |-> [f \in {} |-> 0]]

\* The reference run: an IPCStrategy with no observer registered, on which
\* the server's calls are repeated with the same arguments at the same clock
\* reading; R is the result of the call on the reference object.
NoRef == [S |-> NewStrategy, log |-> <<>>]
Reference(R) ==
    [S |-> R.S,
     log |-> IF R.ev = NoEvent THEN ref.log
             ELSE Append(ref.log, Stamp(R))]

\* `self.ws_clients -= disconnected`: the pruned observers leave the set, so
\* no iterator of another broadcast yields them any more.
Pruned(b, C) == IF b.active THEN [b EXCEPT !.todo = @ \cap C] ELSE b

\* The synchronous code a task runs from the return of a call of the strategy
\* to its next suspension: the strategy's fields, the stamp, and the event's
\* broadcast over the observers C registered at that moment (broadcast returns
\* at once when there are none).
Proceed(task, R, C) ==
    /\ R.ev = NoEvent \/ Len(log) < MaxServerEvents
    /\ Apply(R.S)
    /\ log' = Stamped(R)
    /\ tickArg' = IF task = "tick" THEN NoTick ELSE tickArg
    /\ predArg' = IF task = "pred" THEN NoPrediction ELSE predArg
    /\ IF R.ev # NoEvent /\ C # {}
       THEN \E cur \in C :
                /\ bc' = [t \in Tasks |->
                            IF t = task THEN Ctx(R.ev, cur, C) ELSE Pruned(bc[t], C)]
                /\ pc' = [pc EXCEPT ![task] = "event"]
                /\ recv' = Sent(cur, task, R.ev)
       ELSE /\ bc' = [t \in Tasks |-> IF t = task THEN IdleBc ELSE Pruned(bc[t], C)]
            /\ pc' = [pc EXCEPT ![task] = "idle"]
            /\ recv' = recv

\* Faulty variant: the tick reaches the strategy only while somebody is
\* registered to hear of the outcome.
AfterTrade_observed(tick_data, C) ==
    /\ Proceed("tick",
               IF C = {} THEN Ret(Strat, NoEvent, "skipped")
               ELSE CheckPositionManagement(Strat, tick_data, now),
               C)
    /\ ref' = Reference(CheckPositionManagement(ref.S, tick_data, now))

\* start_binance_tick_stream, lines 146-153, after the trade broadcast.
AfterTrade(tick_data, C) ==
    /\ Proceed("tick", CheckPositionManagement(Strat, tick_data, now), C)
    /\ ref' = Reference(CheckPositionManagement(ref.S, tick_data, now))

\* Faulty variant: a prediction of any horizon reaches the strategy.
AfterPrediction_anyHorizon(prediction, C) ==
    IF latest_tick # None /\ ~test_mode
    THEN /\ Proceed("pred",
                    CheckSignalTrigger(Strat, prediction, latest_tick[1], now,
                                       session_filter),
                    C)
         /\ ref' = Reference(CheckSignalTrigger(ref.S, prediction, latest_tick[1], now,
                                                session_filter))
    ELSE /\ Proceed("pred", Ret(Strat, NoEvent, "skipped"), C)
         /\ UNCHANGED ref

\* poll_latest_predictions / poll_oracle_api_predictions after the
\* prediction broadcast: only the 2-hour horizon reaches the strategy, and
\* only an IPCStrategy.
AfterPrediction(prediction, C) ==
    IF prediction.tf = 2 /\ latest_tick # None /\ ~test_mode
    THEN /\ Proceed("pred",
                    CheckSignalTrigger(Strat, prediction, latest_tick[1], now,
                                       session_filter),
                    C)
         /\ ref' = Reference(CheckSignalTrigger(ref.S, prediction, latest_tick[1], now,
                                                session_filter))
    ELSE /\ Proceed("pred", Ret(Strat, NoEvent, "skipped"), C)
         /\ UNCHANGED ref

\* A message arrives on the Binance socket.
TickArrives(tick_data) ==
    /\ pc["tick"] = "idle"
    /\ latest_tick' = Some(tick_data)
    /\ UNCHANGED <<testVars, session_filter, ws_clients, last_predicted_times, now, broken,
                   scn, last>>
    /\ IF ws_clients = {}
       THEN AfterTrade(tick_data, ws_clients)
       ELSE /\ \E cur \in ws_clients :
                  bc' = [bc EXCEPT !["tick"] = Ctx([type |-> "trade"], cur, ws_clients)]
            /\ pc' = [pc EXCEPT !["tick"] = "trade"]
            /\ tickArg' = tick_data
            /\ UNCHANGED <<stratVars, log, predArg, ref, recv>>

\* poll_latest_predictions / poll_oracle_api_predictions with the latest
\* prediction of a horizon whose predicted_time differs from the one seen last:
\* it is remembered and the prediction is broadcast.
NewPrediction(prediction, predicted_time) ==
    /\ pc["pred"] = "idle"
    /\ predicted_time # last_predicted_times[prediction.tf]
    /\ last_predicted_times' =
          [last_predicted_times EXCEPT ![prediction.tf] = predicted_time]
    /\ UNCHANGED <<testVars, session_filter, ws_clients, latest_tick, now, broken, scn, last>>
    /\ IF ws_clients = {}
       THEN AfterPrediction(prediction, ws_clients)
       ELSE /\ \E cur \in ws_clients :
                  bc' = [bc EXCEPT !["pred"] = Ctx([type |-> "prediction"], cur, ws_clients)]
            /\ pc' = [pc EXCEPT !["pred"] = "prediction"]
            /\ predArg' = prediction
            /\ UNCHANGED <<stratVars, log, tickArg, ref, recv>>

\* A predicted_time the poller has not seen for the horizon.
Unseen(seen) == IF seen = Some(1) THEN Some(2) ELSE Some(1)

\* The poller finds a prediction it has not seen.
PredictionArrives(prediction) ==
    NewPrediction(prediction, Unseen(last_predicted_times[prediction.tf]))

\* One poll of one horizon, whatever the database returns as the latest
\* prediction: nothing happens when its predicted_time is the one seen last.
PollLatestPredictions(prediction, predicted_time) ==
    IF predicted_time = last_predicted_times[prediction.tf]
    THEN pc["pred"] = "idle" /\ UNCHANGED vars
    ELSE NewPrediction(prediction, predicted_time)

\* Faulty variant: the loop emits heartbeats only until the strategy's first
\* stamp.
Heartbeat_untilStamp ==
    /\ state_sequence = 0
    /\ pc["hb"] = "idle"
    /\ ws_clients # {}
    /\ \E cur \in ws_clients :
          /\ bc' = [bc EXCEPT !["hb"] = Ctx(HeartbeatMessage(Strat), cur, ws_clients)]
          /\ recv' = Sent(cur, "hb", HeartbeatMessage(Strat))
    /\ pc' = [pc EXCEPT !["hb"] = "heartbeat"]
    /\ UNCHANGED <<testVars, stratVars, session_filter, ws_clients, latest_tick, last_predicted_times, tickArg,
                   predArg, now, broken, log, scn, ref, last>>

\* One iteration of _heartbeat_loop (IPCStrategy has no suppression hook);
\* without observers broadcast returns at once and nothing changes.
Heartbeat ==
    /\ pc["hb"] = "idle"
    /\ ws_clients # {}
    /\ \E cur \in ws_clients :
          /\ bc' = [bc EXCEPT !["hb"] = Ctx(HeartbeatMessage(Strat), cur, ws_clients)]
          /\ recv' = Sent(cur, "hb", HeartbeatMessage(Strat))
    /\ pc' = [pc EXCEPT !["hb"] = "heartbeat"]
    /\ UNCHANGED <<testVars, stratVars, session_filter, ws_clients, latest_tick, last_predicted_times, tickArg,
                   predArg, now, broken, log, scn, ref, last>>

\* broadcast, lines 703-710: the send to cur returns (or raises), then the
\* loop asks the set iterator for the next observer and begins the send to
\* it; the iterator raises RuntimeError when the set's size changed, which the
\* outer handler logs.
SendCompletes(task) ==
    /\ bc[task].active
    /\ LET b == bc[task]
           failed == b.cur \in broken \/ b.cur \notin ws_clients
           disconnected == IF failed THEN b.disconnected \cup {b.cur} ELSE b.disconnected
           changed == Cardinality(ws_clients) # b.size
           C == IF ~changed /\ b.todo = {} THEN ws_clients \ disconnected ELSE ws_clients
       IN  /\ UNCHANGED <<testVars, session_filter, latest_tick, last_predicted_times, now, scn, last>>
           /\ IF ~changed /\ b.todo # {}
              THEN /\ \E nxt \in b.todo :
                         /\ bc' = [bc EXCEPT ![task] =
                                     [b EXCEPT !.cur = nxt, !.todo = b.todo \ {nxt},
                                               !.disconnected = disconnected]]
                         /\ recv' = Sent(nxt, task, b.msg)
                   /\ UNCHANGED <<stratVars, ws_clients, pc, broken, log, tickArg, predArg, ref>>
              ELSE /\ ws_clients' = C
                   /\ broken' = broken \cap C
                   /\ CASE pc[task] = "trade" -> AfterTrade(tickArg, C)
                        [] pc[task] = "prediction" -> AfterPrediction(predArg, C)
                        [] OTHER -> /\ Proceed(task, Ret(Strat, NoEvent, "done"), C)
                                    /\ UNCHANGED ref

\* handle_websocket: an observer connects and is registered.
Connect(c) ==
    /\ c \notin ws_clients
    /\ ws_clients' = ws_clients \cup {c}
    /\ recv' = IF c = recv.c THEN NoRecv(c) ELSE recv
    /\ UNCHANGED <<testVars, stratVars, session_filter, latest_tick, last_predicted_times, pc, bc, tickArg, predArg,
                   now, broken, log, scn, ref, last>>

\* An observer's transport dies; its handler has not run yet.
Break(c) ==
    /\ c \in ws_clients \ broken
    /\ broken' = broken \cup {c}
    /\ UNCHANGED <<testVars, stratVars, session_filter, ws_clients, latest_tick, last_predicted_times, pc, bc, tickArg,
                   predArg, now, log, scn, ref, recv, last>>

\* handle_websocket's finally: the observer is discarded; a set iterator no
\* longer yields it.
Disconnect(c) ==
    /\ c \in ws_clients
    /\ ws_clients' = ws_clients \ {c}
    /\ broken' = broken \ {c}
    /\ bc' = [t \in Tasks |->
                IF bc[t].active THEN [bc[t] EXCEPT !.todo = @ \ {c}] ELSE bc[t]]
    /\ UNCHANGED <<testVars, stratVars, session_filter, latest_tick, last_predicted_times, pc, tickArg, predArg,
                   now, log, scn, ref, recv, last>>

-----------------------------------------------------------------------------
(* Inputs *)

Malformed == {[k |-> "missing", v |-> 0], [k |-> "null", v |-> 0], [k |-> "str", v |-> 0]}

\* An instant: seconds since Monday 00:00 UTC, and New York's offset then.
Time(t, off) == [k |-> "ok", t |-> t, off |-> off]
NoTime == [k |-> "none"]
BadTime == [k |-> "bad"]

\* The instant at which New York's wall clock shows day c.day (0 = Monday),
\* c.h:c.m:c.s, while New York is c.off hours behind UTC.
NyInstant(c) ==
    Time((c.day * 86400 + (c.h + c.off) * 3600 + c.m * 60 + c.s) % 604800, c.off)

Wall(day, h, m, sec, off) == [day |-> day, h |-> h, m |-> m, s |-> sec, off |-> off]

\* Monday 07:59:59, 08:00:00, 10:59:59 and 11:00:00 in winter, Monday 08:00:00
\* under daylight saving, Friday 10:00, Saturday 09:00, Sunday 20:00 (already
\* Monday in UTC).
SessionCases ==
    {Wall(0, 7, 59, 59, 5), Wall(0, 8, 0, 0, 5), Wall(0, 10, 59, 59, 5),
     Wall(0, 11, 0, 0, 5), Wall(0, 8, 0, 0, 4), Wall(4, 10, 0, 0, 5),
     Wall(5, 9, 0, 0, 5), Wall(6, 20, 0, 0, 5)}

MondayOpen == NyInstant(Wall(0, 8, 0, 0, 5))
SessionTimes == {NyInstant(c) : c \in SessionCases}

Prediction(from, to, time, tf) ==
    [prediction_price |-> from, predicted_price |-> to, prediction_time |-> time, tf |-> tf]

\* Ticks handed to check_position_management, and the latest tick handed to
\* check_signal_trigger.
Ticks ==
    {Num(98000), Num(99000), Num(100000), Num(100050), Num(101000), Num(101500)}
        \cup Malformed
SignalTicks == {Num(100000), [k |-> "missing", v |-> 0]}
Predictions ==
    {Prediction(100000, to, MondayOpen, 2) : to \in {100500, 100501, 99500, 99499}}
        \cup {Prediction(100000, 100700, time, 2) : time \in SessionTimes}
        \cup {Prediction(100000, 100700, NoTime, 2), Prediction(100000, 100700, BadTime, 2)}

ServerTicks == {Num(100000), Num(101000), Num(98000)}
ServerPredictions ==
    {Prediction(100000, 100700, MondayOpen, 2), Prediction(100000, 100700, MondayOpen, 1)}

DeliveryTicks == {Num(100000), Num(101000)}
DeliveryPredictions == {Prediction(100000, 100700, MondayOpen, 2)}

-----------------------------------------------------------------------------
(* SimpleTestStrategy as functions of the strategy object T *)

\* Parameters as IPCUIServer.start and the constructor's defaults set them;
\* initial_stop_loss_points, trailing_activation_offset and
\* trailing_stop_distance have the values of IPCStrategy's.
offline_start_delay == 10
offline_duration == 10

\* Python's `not x` for an optional number: None and 0.0 are both falsy.
Falsy(x) == x = None \/ x = Some(0)

NewTestStrategy(direction) ==
    [direction |-> direction, is_running |-> FALSE, entry_time |-> None,
     entry_price |-> None, current_price |-> None, stop_loss_price |-> None,
     target_price |-> None, trailing_activation_price |-> None,
     trailing_stop_active |-> FALSE, peak_price |-> None, event_counter |-> 0,
     state_sequence |-> 0, strategy_state |-> [f \in {} |-> 0],
     offline_frozen_state |-> None]

IsInOfflineWindow(T, clock) ==
    /\ T.entry_time # None
    /\ offline_start_delay <= clock - T.entry_time[1]
    /\ clock - T.entry_time[1] < offline_start_delay + offline_duration

\* The dict SimpleTestStrategy._update_strategy_state builds.
TestSnapshot(T, n) ==
    IF Falsy(T.entry_price)
    THEN [seq |-> n]
    ELSE [SL |-> T.stop_loss_price, TP |-> T.target_price, ENTRY |-> T.entry_price,
          TSA |-> T.trailing_activation_price,
          TRAILING_STOP_ACTIVE |-> T.trailing_stop_active, seq |-> n]

\* Faulty variant: a stamp skips a sequence number.
TestUpdateStrategyState_skipping(T) ==
    LET n == T.state_sequence + 2
    IN  [T EXCEPT !.state_sequence = n, !.strategy_state = TestSnapshot(T, n)]

TestUpdateStrategyState(T) ==
    LET n == T.state_sequence + 1
    IN  [T EXCEPT !.state_sequence = n, !.strategy_state = TestSnapshot(T, n)]

\* Faulty variant: a reset starts the sequence counter again.
ResetStrategyState_restart(T) ==
    TestUpdateStrategyState(
        [T EXCEPT !.entry_time = None, !.entry_price = None, !.stop_loss_price = None,
                  !.target_price = None, !.trailing_activation_price = None,
                  !.trailing_stop_active = FALSE, !.peak_price = None,
                  !.offline_frozen_state = None, !.state_sequence = 0])

ResetStrategyState(T) ==
    TestUpdateStrategyState(
        [T EXCEPT !.entry_time = None, !.entry_price = None, !.stop_loss_price = None,
                  !.target_price = None, !.trailing_activation_price = None,
                  !.trailing_stop_active = FALSE, !.peak_price = None,
                  !.offline_frozen_state = None])

TestEvent(T, position, reason, event_data) ==
    [type |-> "strategy_event", event_n |-> T.event_counter, position |-> position,
     reason |-> reason, strategy_state |-> T.strategy_state, event_data |-> event_data]

\* start(): the caller also creates the sequence task.
Start(T) == Ret(ResetStrategyState([T EXCEPT !.is_running = TRUE]), NoEvent, "started")

\* stop(): the caller also cancels the sequence task started last.
Stop(T) == Ret(ResetStrategyState([T EXCEPT !.is_running = FALSE]), NoEvent, "stopped")

EnterTrade(T, clock) ==
    LET entry_price == IF T.current_price # None THEN T.current_price[1] ELSE 50000
        long == T.direction = "LONG"
        T1 == [T EXCEPT
                !.entry_time = Some(clock),
                !.entry_price = Some(entry_price),
                !.stop_loss_price =
                    Some(IF long THEN entry_price - initial_stop_loss_points
                         ELSE entry_price + initial_stop_loss_points),
                !.target_price =
                    Some(IF long THEN entry_price + initial_stop_loss_points
                         ELSE entry_price - initial_stop_loss_points),
                !.trailing_activation_price =
                    Some(IF long THEN entry_price + trailing_activation_offset
                         ELSE entry_price - trailing_activation_offset),
                !.trailing_stop_active = FALSE,
                !.peak_price = Some(entry_price),
                !.event_counter = T.event_counter + 1]
        T2 == TestUpdateStrategyState(T1)
    IN  Ret(T2,
            TestEvent(T2, "OPEN", "SIGNAL_DETECTED",
                [signal_direction |-> T2.direction, entry_price |-> T2.entry_price,
                 predicted_price |-> T2.target_price,
                 stop_loss_price |-> T2.stop_loss_price]),
            "open")

CalculatePnl(T, current_price) ==
    IF Falsy(T.entry_price) THEN 0
    ELSE IF T.direction = "LONG" THEN current_price - T.entry_price[1]
    ELSE T.entry_price[1] - current_price

ExitTradeTimeLimit(T) ==
    IF T.entry_time = None \/ Falsy(T.entry_price) THEN Ret(T, NoEvent, "none")
    ELSE
    LET current_price ==
            IF T.current_price # None THEN T.current_price[1] ELSE T.entry_price[1]
        pnl == CalculatePnl(T, current_price)
        pnl_percentage == PnlPct(pnl, T.entry_price[1])
        T1 == ResetStrategyState([T EXCEPT !.event_counter = T.event_counter + 1])
    IN  Ret(T1,
            TestEvent(T1, "CLOSE", "POSITION_TIME_LIMIT_HIT",
                [direction |-> T1.direction, entry_price |-> T1.entry_price,
                 current_price |-> current_price, pnl |-> pnl,
                 pnl_percentage |-> pnl_percentage]),
            "close")

BroadcastTrailingStopUpdate(T, current_price, update_type, clock) ==
    LET T1 == TestUpdateStrategyState(T)
    IN  IF IsInOfflineWindow(T1, clock) THEN Ret(T1, NoEvent, "offline")
        ELSE
        LET T2 == [T1 EXCEPT !.event_counter = T1.event_counter + 1]
        IN  Ret(T2,
                TestEvent(T2, "UPDATE", update_type,
                    [direction |-> T2.direction, entry_price |-> T2.entry_price,
                     stop_loss_price |-> T2.stop_loss_price, peak_price |-> T2.peak_price,
                     trailing_stop_activated |-> TRUE, current_price |-> current_price]),
                "update")

\* Faulty variant: the stop follows every price once trailing is active.
TestNewPeak_any(direction, current_price, peak) == current_price # peak

TestNewPeak(direction, current_price, peak) ==
    IF direction = "LONG" THEN current_price > peak ELSE current_price < peak

CheckTrailingStop(T, current_price, clock) ==
    IF Falsy(T.entry_price) \/ Falsy(T.stop_loss_price)
          \/ Falsy(T.trailing_activation_price)
    THEN Ret(T, NoEvent, "none")
    ELSE
    LET long == T.direction = "LONG"
        new_sl == IF long THEN current_price - trailing_stop_distance
                  ELSE current_price + trailing_stop_distance
        moved == [T EXCEPT !.peak_price = Some(current_price),
                           !.stop_loss_price = Some(new_sl)]
    IN  IF /\ ~T.trailing_stop_active
           /\ IF long THEN current_price >= T.trailing_activation_price[1]
              ELSE current_price <= T.trailing_activation_price[1]
        THEN BroadcastTrailingStopUpdate([moved EXCEPT !.trailing_stop_active = TRUE],
                                         current_price, "TRAILING_STOP_ACTIVATED", clock)
        ELSE IF /\ T.trailing_stop_active
                /\ TestNewPeak(T.direction, current_price, T.peak_price[1])
        THEN BroadcastTrailingStopUpdate(moved, current_price,
                                         "TRAILING_STOP_UPDATED", clock)
        ELSE Ret(T, NoEvent, "noop")

\* process_tick: a tick without "price" and "p" leaves current_price alone; a
\* null raises TypeError out of process_tick, a non-numeric string raises
\* ValueError, which is logged; neither assigns current_price.
ProcessTick(T, tick_data, clock) ==
    IF tick_data.k = "null" THEN Ret(T, NoEvent, "raised")
    ELSE IF tick_data.k = "str" THEN Ret(T, NoEvent, "error")
    ELSE
    LET T1 == IF tick_data.k = "num"
              THEN [T EXCEPT !.current_price = Some(Float(tick_data).v)]
              ELSE T
    IN  IF T1.entry_price # None /\ T1.current_price # None
        THEN CheckTrailingStop(T1, T1.current_price[1], clock)
        ELSE Ret(T1, NoEvent, "tracked")

ShouldSuppressHeartbeat(T, clock) == IsInOfflineWindow(T, clock)

\* Faulty variant: a frozen copy, once taken, is returned until the next reset.
TestGetStrategyState_sticky(T, clock) ==
    IF T.offline_frozen_state # None
    THEN [S |-> T, state |-> T.offline_frozen_state[1]]
    ELSE IF IsInOfflineWindow(T, clock)
    THEN [S |-> [T EXCEPT !.offline_frozen_state = Some(T.strategy_state)],
          state |-> T.strategy_state]
    ELSE [S |-> T, state |-> T.strategy_state]

\* Faulty variant: reading the state drops the trailing flag.
TestGetStrategyState_clearing(T, clock) ==
    [S |-> [T EXCEPT !.trailing_stop_active = FALSE, !.offline_frozen_state = None],
     state |-> T.strategy_state]

\* get_strategy_state: the object after the call, and the dict returned.
TestGetStrategyState(T, clock) ==
    IF IsInOfflineWindow(T, clock)
    THEN LET frozen == IF T.offline_frozen_state = None THEN Some(T.strategy_state)
                       ELSE T.offline_frozen_state
         IN  [S |-> [T EXCEPT !.offline_frozen_state = frozen], state |-> frozen[1]]
    ELSE [S |-> [T EXCEPT !.offline_frozen_state = None], state |-> T.strategy_state]

-----------------------------------------------------------------------------
(* The test strategy driven by its sequence tasks, ticks and the heartbeat *)

MaxStarts == 2          \* calls of /api/strategy-events
MaxTestStamps == 5      \* stamps per test run
MaxTestTime == 70       \* seconds the clock of a test run reaches

\* The default delay_seconds of start_delayed.
start_delay_seconds == 5

\* The delays IPCUIServer.start passes to the constructor.
entry_delay_seconds == 5
exit_delay_seconds == 60

\* A _run_strategy_sequence task: the phase it is suspended in and the clock
\* reading when that phase began.
SequenceTask(at, since) == [at |-> at, since |-> since]

\* Prices around the entry at 100000, the activation prices 101000 (LONG) and
\* 99000 (SHORT) and a further peak; and every kind of tick the relay can
\* decode and hand to process_tick.
TestTicks == {Num(99000), Num(100000), Num(101000), Num(101500)}
RelayTicks == TestTicks \cup {Num(0)} \cup Malformed

\* A sequence task whose sleep has run out: the event loop wakes it before
\* the clock is read again.
Due(task) ==
    \/ task.at = "exiting"
    \/ task.at = "entry_delay" /\ now - task.since >= entry_delay_seconds
    \/ task.at = "simulating" /\ now - task.since >= exit_delay_seconds
    \/ task.at = "start_delay" /\ now - task.since >= start_delay_seconds

\* One entry per stamp of the test strategy; a stamp without an event has
\* position "NONE".
TestStamp(R) ==
    [seq |-> R.S.state_sequence, absent |-> R.S.entry_price = None,
     position |-> IF R.ev = NoEvent THEN "NONE" ELSE R.ev.position,
     reason |-> IF R.ev = NoEvent THEN R.how ELSE R.ev.reason]

\* What a call on the test strategy leaves behind.
TestCall(op, arg, R) ==
    /\ R.S.state_sequence = test.state_sequence \/ Len(log) < MaxTestStamps
    /\ test' = R.S
    /\ log' = IF R.S.state_sequence = test.state_sequence THEN log
              ELSE Append(log, TestStamp(R))
    /\ last' = Call(op, arg, R)
    /\ UNCHANGED <<stratVars, session_filter, serverVars, now, scn, ref, test_mode>>

\* handle_strategy_events: start() runs at once and creates a sequence task.
StartTestStrategy ==
    /\ test_mode
    /\ Len(sequence_tasks) < MaxStarts
    /\ TestCall("start", [n |-> Len(sequence_tasks)], Start(test))
    /\ sequence_tasks' = Append(sequence_tasks, SequenceTask("entry_delay", now))

\* stop() called on the running test strategy: the task start() created last
\* is cancelled in its sleep, tasks of earlier starts are not.
StopTestStrategy ==
    /\ test_mode
    /\ test.is_running
    /\ TestCall("stop", [n |-> Len(sequence_tasks)], Stop(test))
    /\ sequence_tasks' =
          [i \in DOMAIN sequence_tasks |->
              IF i = Len(sequence_tasks) THEN SequenceTask("done", now)
              ELSE sequence_tasks[i]]

\* _run_strategy_sequence after the entry delay: _enter_trade, then
\* _simulate_price_movement_to_target up to its first sleep; the simulation
\* returns at once when the entry, target or activation price is falsy.
SequenceEnters(i) ==
    /\ sequence_tasks[i].at = "entry_delay"
    /\ Due(sequence_tasks[i])
    /\ IF test.is_running
       THEN LET R == EnterTrade(test, now)
                simulates == ~(\/ Falsy(R.S.entry_price) \/ Falsy(R.S.target_price)
                               \/ Falsy(R.S.trailing_activation_price))
            IN  /\ TestCall("enter_trade", [task |-> i], R)
                /\ sequence_tasks' =
                      [sequence_tasks EXCEPT ![i] =
                          SequenceTask(IF simulates THEN "simulating" ELSE "exiting", now)]
       ELSE /\ TestCall("enter_trade", [task |-> i], Ret(test, NoEvent, "stopped"))
            /\ sequence_tasks' = [sequence_tasks EXCEPT ![i] = SequenceTask("done", now)]

\* One step of _simulate_price_movement_to_target: process_tick with a price
\* on the simulated path, which leads from the entry price towards the target.
SimulatedTick(i, tick_data) ==
    /\ sequence_tasks[i].at = "simulating"
    /\ tick_data.k = "num"
    /\ test.entry_price # None =>
          IF test.direction = "LONG" THEN tick_data.v > test.entry_price[1]
          ELSE tick_data.v < test.entry_price[1]
    /\ TestCall("process_tick", [tick_data |-> tick_data, simulated |-> TRUE],
                ProcessTick(test, tick_data, now))
    /\ UNCHANGED sequence_tasks

\* The relay hands a Binance tick to process_tick.
LiveTick(tick_data) ==
    /\ test_mode
    /\ TestCall("process_tick", [tick_data |-> tick_data, simulated |-> FALSE],
                ProcessTick(test, tick_data, now))
    /\ UNCHANGED sequence_tasks

\* start_binance_tick_stream in test mode with nobody registered: the tick
\* becomes the latest tick, the trade broadcast returns at once, and the tick
\* is handed to process_tick.
TestTickArrives(tick_data) ==
    LET R == ProcessTick(test, tick_data, now)
    IN  /\ test_mode
        /\ pc["tick"] = "idle"
        /\ ws_clients = {}
        /\ R.S.state_sequence = test.state_sequence \/ Len(log) < MaxTestStamps
        /\ latest_tick' = Some(tick_data)
        /\ test' = R.S
        /\ log' = IF R.S.state_sequence = test.state_sequence THEN log
                  ELSE Append(log, TestStamp(R))
        /\ last' = Call("process_tick", [tick_data |-> tick_data, simulated |-> FALSE], R)
        /\ UNCHANGED <<stratVars, session_filter, ws_clients, last_predicted_times, pc, bc,
                       tickArg, predArg, broken, recv, now, scn, ref, test_mode,
                       sequence_tasks>>

\* _run_strategy_sequence after the simulation, whose steps sleep
\* exit_delay_seconds in all.
SequenceExits(i) ==
    /\ sequence_tasks[i].at \in {"simulating", "exiting"}
    /\ Due(sequence_tasks[i])
    /\ IF ~test.is_running \/ test.entry_time = None
       THEN TestCall("exit_trade", [task |-> i], Ret(test, NoEvent, "stopped"))
       ELSE TestCall("exit_trade", [task |-> i], ExitTradeTimeLimit(test))
    /\ sequence_tasks' = [sequence_tasks EXCEPT ![i] = SequenceTask("done", now)]

\* One iteration of _heartbeat_loop in test mode.
TestHeartbeat ==
    /\ test_mode
    /\ IF ShouldSuppressHeartbeat(test, now)
       THEN TestCall("heartbeat", [sent |-> FALSE], Ret(test, NoEvent, "suppressed"))
       ELSE LET G == TestGetStrategyState(test, now)
            IN  TestCall("heartbeat", [sent |-> TRUE],
                         Ret(G.S, [type |-> "strategy_heartbeat",
                                   strategy_state |-> G.state], "sent"))
    /\ UNCHANGED sequence_tasks

\* get_strategy_state called on the test strategy directly.
CallGetStrategyState ==
    /\ test_mode
    /\ LET G == TestGetStrategyState(test, now)
       IN  TestCall("get_strategy_state", [returned |-> G.state],
                    Ret(G.S, NoEvent,
                        IF IsInOfflineWindow(test, now) THEN "frozen"
                        ELSE IF test.offline_frozen_state # None THEN "resumed"
                        ELSE "live"))
    /\ UNCHANGED sequence_tasks

\* Ten seconds pass.
TestClockTick ==
    /\ test_mode
    /\ now < MaxTestTime
    /\ \A i \in DOMAIN sequence_tasks : ~Due(sequence_tasks[i])
    /\ now' = now + 10
    /\ UNCHANGED <<stratVars, session_filter, serverVars, log, scn, ref, last, testVars>>

\* The heartbeat loop samples IPCStrategy's snapshot.
SampleHeartbeat ==
    /\ ~test_mode
    /\ last' = Call("heartbeat", [sent |-> TRUE],
                    Ret(Strat, HeartbeatMessage(Strat), "sent"))
    /\ UNCHANGED <<stratVars, session_filter, serverVars, now, log, scn, ref, testVars>>

Init ==
    /\ active_signal = None
    /\ trailing_stop_active = FALSE
    /\ peak_price = None
    /\ event_counter = 0
    /\ state_sequence = 0
    /\ strategy_state = [f \in {} |-> 0]
    /\ session_filter \in BOOLEAN
    /\ ws_clients = {}
    /\ latest_tick = None
    /\ last_predicted_times = [timeframe \in Timeframes |-> None]
    /\ pc = [t \in Tasks |-> "idle"]
    /\ bc = [t \in Tasks |-> IdleBc]
    /\ tickArg = NoTick
    /\ predArg = NoPrediction
    /\ now = 0
    /\ broken = {}
    /\ log = <<>>
    /\ scn = 0
    /\ recv = NoRecv("nobody")
    /\ last = NoCall
    /\ ref = NoRef
    /\ test_mode = FALSE
    /\ test = None
    /\ sequence_tasks = <<>>

\* The strategy object under arbitrary calls.
Next ==
    \/ \E prediction \in Predictions, tick_data \in SignalTicks :
          CallCheckSignalTrigger(prediction, tick_data)
    \/ \E tick_data \in Ticks : CallCheckPositionManagement(tick_data)
    \/ ClockTick

Spec == Init /\ [][Next]_vars

\* The strategy object opening positions: the latest tick differs from the
\* prediction's own price or carries none, and a tick beyond either stop
\* closes the position again.
OpenTicks == {Num(100000), Num(100200), [k |-> "missing", v |-> 0]}
CloseTicks == {Num(97000), Num(103000)}

NextOpen ==
    \/ \E prediction \in Predictions, tick_data \in OpenTicks :
          CallCheckSignalTrigger(prediction, tick_data)
    \/ \E tick_data \in CloseTicks : CallCheckPositionManagement(tick_data)
    \/ ClockTick

SpecOpen == Init /\ [][NextOpen]_vars

\* The server in live mode: relay, poller, heartbeat and observers interleaved.
NextServer ==
    \/ \E tick_data \in ServerTicks : TickArrives(tick_data)
    \/ \E prediction \in ServerPredictions : PredictionArrives(prediction)
    \/ Heartbeat
    \/ \E task \in Tasks : SendCompletes(task)
    \/ \E c \in Clients : Connect(c)
    \/ \E c \in Clients : Disconnect(c)

\* IPCUIServer.start constructs the strategy with session_filter=True.
InitServer == Init /\ session_filter

SpecServer == InitServer /\ [][NextServer]_vars

\* The server with observers whose transport can die while they are
\* registered.
RegistryTicks == {Num(100000), Num(98000)}
RegistryPredictions == {Prediction(100000, 100700, MondayOpen, 2)}

NextRegistry ==
    \/ \E tick_data \in RegistryTicks : TickArrives(tick_data)
    \/ \E prediction \in RegistryPredictions : PredictionArrives(prediction)
    \/ Heartbeat
    \/ \E task \in Tasks : SendCompletes(task)
    \/ \E c \in Clients : Connect(c)
    \/ \E c \in Clients : Break(c)
    \/ \E c \in Clients : Disconnect(c)

SpecRegistry == InitServer /\ [][NextRegistry]_vars

\* The server's loops under the event loop's scheduling: a task whose await
\* has completed runs, and the heartbeat loop's sleep runs out.
LiveTicks == {Num(100000)}
NextLive ==
    \/ \E tick_data \in LiveTicks : TickArrives(tick_data)
    \/ \E prediction \in RegistryPredictions : PredictionArrives(prediction)
    \/ Heartbeat
    \/ \E task \in Tasks : SendCompletes(task)
    \/ \E c \in Clients : Connect(c)
    \/ \E c \in Clients : Disconnect(c)

\* Every send completes or raises.
SpecLive ==
    /\ InitServer
    /\ [][NextLive]_vars
    /\ WF_vars(Heartbeat)
    /\ \A task \in Tasks : WF_vars(SendCompletes(task))

\* One observer's peer has stopped reading while its connection stays up: a
\* send to it never completes, every other send completes or raises.
Stalled == "a"
SendReturns(task) == bc[task].active /\ bc[task].cur # Stalled /\ SendCompletes(task)

NextStalled ==
    \/ \E tick_data \in LiveTicks : TickArrives(tick_data)
    \/ \E prediction \in RegistryPredictions : PredictionArrives(prediction)
    \/ Heartbeat
    \/ \E task \in Tasks : SendReturns(task)
    \/ \E c \in Clients : Connect(c)
    \/ \E c \in Clients \ {Stalled} : Disconnect(c)

SpecStalled ==
    /\ InitServer
    /\ [][NextStalled]_vars
    /\ WF_vars(Heartbeat)
    /\ \A task \in Tasks : WF_vars(SendReturns(task))

\* The same server with the deliveries to one observer recorded.
InitDelivery ==
    /\ active_signal = None
    /\ trailing_stop_active = FALSE
    /\ peak_price = None
    /\ event_counter = 0
    /\ state_sequence = 0
    /\ strategy_state = [f \in {} |-> 0]
    /\ session_filter = TRUE
    /\ ws_clients = {}
    /\ latest_tick = None
    /\ last_predicted_times = [timeframe \in Timeframes |-> None]
    /\ pc = [t \in Tasks |-> "idle"]
    /\ bc = [t \in Tasks |-> IdleBc]
    /\ tickArg = NoTick
    /\ predArg = NoPrediction
    /\ now = 0
    /\ broken = {}
    /\ log = <<>>
    /\ scn = 0
    /\ recv \in {NoRecv(c) : c \in Clients}
    /\ last = NoCall
    /\ ref = NoRef
    /\ test_mode = FALSE
    /\ test = None
    /\ sequence_tasks = <<>>

NextDelivery ==
    \/ \E tick_data \in DeliveryTicks : TickArrives(tick_data)
    \/ \E prediction \in DeliveryPredictions : PredictionArrives(prediction)
    \/ Heartbeat
    \/ \E task \in Tasks : SendCompletes(task)
    \/ \E c \in Clients : Connect(c)

SpecDelivery == InitDelivery /\ [][NextDelivery]_vars

\* Either strategy variant, driven through its own entry points.
VariantPredictions ==
    {Prediction(100000, to, MondayOpen, 2) : to \in {100700, 99300}}

InitVariants ==
    /\ active_signal = None
    /\ trailing_stop_active = FALSE
    /\ peak_price = None
    /\ event_counter = 0
    /\ state_sequence = 0
    /\ strategy_state = [f \in {} |-> 0]
    /\ session_filter = FALSE
    /\ ws_clients = {}
    /\ latest_tick = None
    /\ last_predicted_times = [timeframe \in Timeframes |-> None]
    /\ pc = [t \in Tasks |-> "idle"]
    /\ bc = [t \in Tasks |-> IdleBc]
    /\ tickArg = NoTick
    /\ predArg = NoPrediction
    /\ now = 0
    /\ broken = {}
    /\ log = <<>>
    /\ scn = 0
    /\ recv = NoRecv("nobody")
    /\ last = NoCall
    /\ ref = NoRef
    /\ \/ test_mode = FALSE /\ test = None
       \/ test_mode = TRUE /\ test \in {NewTestStrategy(d) : d \in {"LONG", "SHORT"}}
    /\ sequence_tasks = <<>>

NextVariants ==
    \/ /\ ~test_mode
       /\ \E prediction \in VariantPredictions :
             CallCheckSignalTrigger(prediction, Num(100000))
    \/ /\ ~test_mode
       /\ \E tick_data \in Ticks : CallCheckPositionManagement(tick_data)
    \/ /\ ~test_mode
       /\ ClockTick
    \/ SampleHeartbeat
    \/ StartTestStrategy
    \/ \E i \in DOMAIN sequence_tasks : SequenceEnters(i)
    \/ \E i \in DOMAIN sequence_tasks, tick_data \in TestTicks : SimulatedTick(i, tick_data)
    \/ \E tick_data \in TestTicks : LiveTick(tick_data)
    \/ \E i \in DOMAIN sequence_tasks : SequenceExits(i)
    \/ TestHeartbeat
    \/ CallGetStrategyState
    \/ TestClockTick

SpecVariants == InitVariants /\ [][NextVariants]_vars

\* Either variant over its lifetime: the test strategy is also stopped.
NextLifetime ==
    \/ NextVariants
    \/ StopTestStrategy

SpecLifetime == InitVariants /\ [][NextLifetime]_vars

\* Either strategy variant with a position, handed every kind of tick by the
\* relay.
NextTicks ==
    \/ /\ ~test_mode
       /\ \E prediction \in VariantPredictions :
             CallCheckSignalTrigger(prediction, Num(100000))
    \/ /\ ~test_mode
       /\ \E tick_data \in Ticks : CallCheckPositionManagement(tick_data)
    \/ StartTestStrategy
    \/ \E i \in DOMAIN sequence_tasks : SequenceEnters(i)
    \/ \E tick_data \in RelayTicks : LiveTick(tick_data)
    \/ TestClockTick

SpecTicks == InitVariants /\ [][NextTicks]_vars

\* The relay and the poller in either mode: every poll of every horizon,
\* with a predicted_time seen before or not, interleaved with ticks and with
\* observers that suspend the broadcasts of the live server.
PollerTicks == {Num(100000), Num(98000)}
PollerPredictions == {Prediction(100000, 100700, MondayOpen, tf) : tf \in Timeframes}
PredictedTimes == {None, Some(1), Some(2)}

NextPoller ==
    \/ /\ ~test_mode
       /\ \E tick_data \in PollerTicks : TickArrives(tick_data)
    \/ \E tick_data \in PollerTicks : TestTickArrives(tick_data)
    \/ \E prediction \in PollerPredictions, predicted_time \in PredictedTimes :
          PollLatestPredictions(prediction, predicted_time)
    \/ \E task \in Tasks : SendCompletes(task)
    \/ /\ ~test_mode
       /\ \E c \in Clients : Connect(c)

SpecPoller == InitVariants /\ [][NextPoller]_vars

-----------------------------------------------------------------------------
(* Properties *)

Positions(kind) == {i \in 1..Len(log) : log[i].position = kind}

\* C1 (SpecServer): under every interleaving of the tick relay, the prediction
\* poller, the heartbeat loop and the observers, the stamps never show two
\* OPEN events without a CLOSE between them, and the OPEN events not yet
\* followed by a CLOSE are exactly the one position held, or none.
C1_AtMostOnePosition ==
    /\ \A i, j \in Positions("OPEN") :
          i < j => \E k \in Positions("CLOSE") : i < k /\ k < j
    /\ Cardinality({i \in Positions("OPEN") :
                      \A k \in Positions("CLOSE") : k < i})
          = IF active_signal = None THEN 0 ELSE 1

\* C1's case: a prediction opened a position while the relay was still
\* suspended in the broadcast of the CLOSE of the previous one.
C1_Witness ==
    /\ Len(log) = 3
    /\ log[2].position = "CLOSE" /\ log[3].position = "OPEN"
    /\ pc["tick"] = "event" /\ bc["tick"].active
    /\ bc["tick"].msg.position = "CLOSE"
    /\ active_signal # None

\* A snapshot was just delivered to the watched observer.
DeliveredNow == recv'.c = recv.c /\ recv'.bit # recv.bit

SignalCall == last' # last /\ last'.op = "check_signal_trigger"
TickCall == last' # last /\ last'.op = "check_position_management"

PriceDiff(prediction) == prediction.predicted_price - prediction.prediction_price

\* C4 (Spec): with no position open and the session filter passing, a
\* prediction whose |predicted_price - prediction_price| is delta or less opens
\* nothing, and one whose difference is delta + 1 opens a position in the
\* direction of the difference.
C4_ThresholdBoundary ==
    [][(/\ SignalCall
        /\ active_signal = None
        /\ last'.arg.prediction.prediction_time.k = "ok"
        /\ ~session_filter \/ last'.arg.prediction.prediction_time = MondayOpen) =>
          LET d == PriceDiff(last'.arg.prediction)
          IN  /\ (d >= -delta /\ d <= delta) =>
                    /\ last'.ev = NoEvent
                    /\ active_signal' = None
                    /\ state_sequence' = state_sequence
              /\ (d = delta + 1 \/ d = -(delta + 1)) =>
                    /\ last'.ev # NoEvent
                    /\ last'.ev.position = "OPEN"
                    /\ active_signal' # None
                    /\ active_signal'.direction = IF d > 0 THEN "LONG" ELSE "SHORT"]_vars

\* C4's case: a prediction whose difference is exactly delta was rejected by
\* the threshold while no position was open.
C4_Witness ==
    /\ last.op = "check_signal_trigger"
    /\ last.how = "delta"
    /\ PriceDiff(last.arg.prediction) = delta
    /\ active_signal = None

\* C5 (Spec): with session filtering enabled and no position open, a
\* prediction that passes the threshold opens a position if New York's wall
\* clock at its prediction_time shows Monday to Friday and an hour in 8..10,
\* and otherwise emits nothing and changes no state.
C5_SessionBoundary ==
    [][\A c \in SessionCases :
          (/\ SignalCall
           /\ session_filter
           /\ active_signal = None
           /\ last'.arg.prediction.prediction_time = NyInstant(c)
           /\ PriceDiff(last'.arg.prediction) > delta) =>
              IF c.day <= 4 /\ c.h >= 8 /\ c.h < 11
              THEN /\ last'.ev # NoEvent
                   /\ last'.ev.position = "OPEN"
                   /\ active_signal' # None
              ELSE /\ last'.ev = NoEvent
                   /\ UNCHANGED stratVars]_vars

\* C5's case: a prediction timed Monday 07:59:59 New York time, passing the
\* threshold, was rejected by the session filter.
C5_Witness ==
    /\ last.op = "check_signal_trigger"
    /\ last.how = "session"
    /\ last.arg.prediction.prediction_time = NyInstant(Wall(0, 7, 59, 59, 5))
    /\ PriceDiff(last.arg.prediction) > delta
    /\ active_signal = None

\* C6 (Spec): from a fresh strategy with the session filter off, the
\* prediction 100000 -> 100700 at latest tick 100000 opens LONG with entry
\* 100000, stop 98000, activation 101000, target 100700, seq 1; the tick 101000
\* then emits UPDATE/TRAILING_STOP_ACTIVATED with peak 101000, stop 100100,
\* seq 2; the tick 100050 then emits CLOSE/STOP_LOSS_HIT with pnl 50,
\* pnl_percentage 0.05, seq 3, and no position is left.
C6_EndToEndScenario ==
    /\ scn = 1 =>
          /\ last.ev # NoEvent
          /\ last.ev.position = "OPEN" /\ last.ev.reason = "SIGNAL_DETECTED"
          /\ last.ev.event_data.signal_direction = "LONG"
          /\ last.ev.event_data.entry_price = 100000
          /\ last.ev.event_data.stop_loss_price = 98000
          /\ last.ev.event_data.trailing_activation_price = 101000
          /\ last.ev.event_data.predicted_price = 100700
          /\ last.ev.strategy_state =
                [SL |-> 98000, TP |-> 100700, ENTRY |-> 100000, TSA |-> 101000,
                 TRAILING_STOP_ACTIVE |-> FALSE, seq |-> 1]
          /\ active_signal # None
          /\ active_signal.direction = "LONG" /\ active_signal.entry_price = 100000
          /\ active_signal.stop_loss = 98000 /\ active_signal.target = 100700
          /\ active_signal.trailing_activation_price = 101000
          /\ ~trailing_stop_active
          /\ state_sequence = 1
    /\ scn = 2 =>
          /\ last.ev # NoEvent
          /\ last.ev.position = "UPDATE" /\ last.ev.reason = "TRAILING_STOP_ACTIVATED"
          /\ last.ev.event_data.peak_price = 101000
          /\ last.ev.event_data.stop_loss_price = 100100
          /\ last.ev.strategy_state =
                [SL |-> 100100, TP |-> 100700, ENTRY |-> 100000, TSA |-> 101000,
                 TRAILING_STOP_ACTIVE |-> TRUE, seq |-> 2]
          /\ active_signal # None
          /\ active_signal.stop_loss = 100100
          /\ peak_price = Some(101000)
          /\ trailing_stop_active
          /\ state_sequence = 2
    /\ scn = 3 =>
          /\ last.ev # NoEvent
          /\ last.ev.position = "CLOSE" /\ last.ev.reason = "STOP_LOSS_HIT"
          /\ last.ev.event_data.pnl = 50
          /\ last.ev.event_data.pnl_percentage.num * 100
                = 5 * last.ev.event_data.pnl_percentage.den
          /\ last.ev.strategy_state = [seq |-> 3]
          /\ active_signal = None
          /\ state_sequence = 3

\* C6's case: the three inputs of the scenario have been handled in order.
C6_Witness == scn = 3 /\ last.op = "check_position_management"

\* The tick matches no branch of check_position_management: no position, or a
\* position within its time limit with the price strictly on the safe side of
\* the stop and short of the activation price (trailing inactive) or not
\* beyond the peak (trailing active).
NoBranch(tick_data) ==
    \/ active_signal = None
    \/ /\ active_signal # None
       /\ tick_data.k = "num"
       /\ now - active_signal.entry_time <= max_position_duration_hours
       /\ IF active_signal.direction = "LONG"
          THEN /\ tick_data.v > active_signal.stop_loss
               /\ IF trailing_stop_active THEN tick_data.v <= peak_price[1]
                  ELSE tick_data.v < active_signal.trailing_activation_price
          ELSE /\ tick_data.v < active_signal.stop_loss
               /\ IF trailing_stop_active THEN tick_data.v >= peak_price[1]
                  ELSE tick_data.v > active_signal.trailing_activation_price

\* C7 (Spec): check_position_management called with a tick that matches no
\* branch, or with no position, emits no event and leaves seq, the event
\* counter, the position with its stop_loss, peak_price and the trailing flag
\* unchanged.
C7_NoOpTick ==
    [][(TickCall /\ NoBranch(last'.arg.tick_data)) =>
          /\ last'.ev = NoEvent
          /\ UNCHANGED <<state_sequence, event_counter, active_signal, peak_price,
                         trailing_stop_active>>]_vars

\* C7's case: with trailing active, a tick below the peak and above the stop
\* was handled.
C7_Witness ==
    /\ last.op = "check_position_management"
    /\ last.how = "noop"
    /\ trailing_stop_active
    /\ active_signal # None /\ active_signal.direction = "LONG"
    /\ last.arg.tick_data.v < peak_price[1]
    /\ last.arg.tick_data.v > active_signal.stop_loss

\* C8 (Spec): check_signal_trigger called while a position exists, with any
\* prediction and any latest tick, emits no event and leaves the position, the
\* trailing flag, peak_price, seq and the event counter unchanged.
C8_PredictionWhileOpen ==
    [][(SignalCall /\ active_signal # None) =>
          /\ last'.ev = NoEvent
          /\ UNCHANGED <<active_signal, trailing_stop_active, peak_price,
                         state_sequence, event_counter>>]_vars

\* C8's case: a prediction that would open a position was handled while one
\* was open.
C8_Witness ==
    /\ last.op = "check_signal_trigger"
    /\ last.how = "active"
    /\ last.arg.prediction = Prediction(100000, 100700, MondayOpen, 2)
    /\ last.arg.tick_data = Num(100000)
    /\ active_signal # None

\* C10 as stated (Spec): a tick whose price is missing or not a number, handed
\* to check_position_management while a position is open, emits no event and
\* leaves the position, the trailing flag, peak_price, seq and the event
\* counter unchanged.
C10_MalformedTickNoChange ==
    [][(TickCall /\ active_signal # None /\ last'.arg.tick_data \in Malformed) =>
          /\ last'.ev = NoEvent
          /\ UNCHANGED <<active_signal, trailing_stop_active, peak_price,
                         state_sequence, event_counter>>]_vars

\* C10 for the ticks that raise in float(): a tick whose price is null or a
\* non-numeric string changes nothing.
C10_UnparseableTickNoChange ==
    [][(TickCall /\ active_signal # None /\ last'.arg.tick_data.k \in {"null", "str"}) =>
          /\ last'.ev = NoEvent
          /\ UNCHANGED stratVars]_vars

\* C3 (SpecVariants): in both strategy variants, while trailing stays active
\* the position's stop_loss never moves against the position: no step lowers
\* it for a LONG position or raises it for a SHORT one.
C3_TrailingStopTightens ==
    [][/\ (/\ trailing_stop_active /\ trailing_stop_active'
           /\ active_signal # None /\ active_signal' # None) =>
              IF active_signal.direction = "LONG"
              THEN active_signal'.stop_loss >= active_signal.stop_loss
              ELSE active_signal'.stop_loss <= active_signal.stop_loss
       /\ (/\ test # None
           /\ test.trailing_stop_active /\ test'.trailing_stop_active
           /\ test.stop_loss_price # None /\ test'.stop_loss_price # None) =>
              IF test.direction = "LONG"
              THEN test'.stop_loss_price[1] >= test.stop_loss_price[1]
              ELSE test'.stop_loss_price[1] <= test.stop_loss_price[1]]_vars

\* C3's case: with trailing active in the test variant, a live tick arrived
\* while a sequence task was simulating prices and moved the stop to follow a
\* new peak.
C3_Witness ==
    /\ test_mode
    /\ last.op = "process_tick" /\ ~last.arg.simulated
    /\ last.how = "update"
    /\ last.ev.reason = "TRAILING_STOP_UPDATED"
    /\ \E i \in DOMAIN sequence_tasks : sequence_tasks[i].at = "simulating"
    /\ test.trailing_stop_active

\* The sequence counter of the strategy that runs.
SeqNow == IF test_mode THEN test.state_sequence ELSE state_sequence

\* A message carrying a snapshot was just handed to broadcast.
PublishedNow == last' # last /\ last'.ev # NoEvent

\* C9 (SpecVariants): every CLOSE event of either variant carries a
\* strategy_state that is exactly the newly incremented seq, with none of SL,
\* TP, ENTRY, TSA, TRAILING_STOP_ACTIVE; and no event or heartbeat carries
\* SL, TP or ENTRY together with a seq stamped while the position was absent.
C9_CloseAtomicWithStamp ==
    [][/\ (/\ PublishedNow
           /\ last'.ev.type = "strategy_event"
           /\ last'.ev.position = "CLOSE") =>
              /\ last'.ev.strategy_state = [seq |-> SeqNow + 1]
              /\ SeqNow' = SeqNow + 1
       /\ (/\ PublishedNow
           /\ DOMAIN last'.ev.strategy_state \cap {"SL", "TP", "ENTRY"} # {}) =>
              \A i \in DOMAIN log' :
                  log'[i].seq = last'.ev.strategy_state.seq => ~log'[i].absent]_vars

\* C9's case: the test variant closed its position at the time limit and
\* published the CLOSE event.
C9_Witness ==
    /\ test_mode
    /\ last.op = "exit_trade"
    /\ last.how = "close"
    /\ last.ev.position = "CLOSE"
    /\ test.entry_price = None

\* C11 as stated (SpecTicks): whatever tick the relay hands over - price
\* missing, null, a non-numeric string or a number - the call of
\* check_position_management or process_tick returns normally: no exception
\* leaves the strategy's handler.
C11_TickCallReturns ==
    last.op \in {"check_position_management", "process_tick"} => last.how # "raised"

\* C11 for IPCStrategy alone: check_position_management returns normally for
\* every tick.
C11_PositionManagementReturns ==
    last.op = "check_position_management" => last.how # "raised"

\* The broadcast the task was suspended in has just returned.
Ended(task) ==
    /\ bc[task].active
    /\ ~bc'[task].active \/ bc'[task].msg # bc[task].msg

\* The observers whose send has failed in the task's broadcast, the send in
\* flight included.
FailedIn(task) ==
    bc[task].disconnected
        \cup (IF bc[task].cur \in broken \/ bc[task].cur \notin ws_clients
              THEN {bc[task].cur} ELSE {})

\* C12 as stated (SpecRegistry): when a broadcast in which a send failed
\* returns, no observer whose send failed is registered any more, and every
\* other observer that was registered is still registered - whatever other
\* broadcasts, registrations and deregistrations ran meanwhile.
C12_FailedObserverPruned ==
    [][\A task \in Tasks :
          Ended(task) =>
              /\ FailedIn(task) \cap ws_clients' = {}
              /\ ws_clients \ FailedIn(task) \subseteq ws_clients']_vars

\* C12 without the pruning: a broadcast never removes an observer whose send
\* did not fail.
C12_OnlyFailedPruned ==
    [][\A task \in Tasks :
          Ended(task) => ws_clients \ FailedIn(task) \subseteq ws_clients']_vars

\* C13 as stated (SpecRegistry): when a broadcast returns, no observer that
\* has been registered since the broadcast began and whose transport works is
\* left without the message - whatever registrations, deregistrations and
\* prunings happened while the broadcast was suspended.
C13_DeliversToRegistered ==
    [][\A task \in Tasks :
          Ended(task) => (bc[task].todo \cap ws_clients) \ broken = {}]_vars

C14_InputsProcessed ==
    /\ (pc["tick"] = "trade") ~> (pc["tick"] # "trade")
    /\ (pc["pred"] = "prediction") ~> (pc["pred"] # "prediction")

HeartbeatSent == last.op = "heartbeat" /\ last.arg.sent

\* The position fields a snapshot carries.
PositionFields == {"SL", "TP", "ENTRY", "TSA", "TRAILING_STOP_ACTIVE"}

PositionOpen == IF test_mode THEN test.entry_price # None ELSE active_signal # None

\* C16 as stated (SpecVariants): every heartbeat published carries a
\* strategy_state whose seq is the strategy's sequence counter, and the
\* position fields when a position is open - in every reachable state, the
\* state before any stamp included.
C16_HeartbeatCarriesSeq ==
    HeartbeatSent =>
        /\ "seq" \in DOMAIN last.ev.strategy_state
        /\ last.ev.strategy_state.seq = SeqNow
        /\ PositionOpen => PositionFields \subseteq DOMAIN last.ev.strategy_state

\* C16 once the strategy has stamped: from the first stamp on every heartbeat
\* carries the current seq, and the position fields when a position is open.
C16_HeartbeatCarriesSeqOnceStamped ==
    (HeartbeatSent /\ SeqNow > 0) =>
        /\ "seq" \in DOMAIN last.ev.strategy_state
        /\ last.ev.strategy_state.seq = SeqNow
        /\ PositionOpen => PositionFields \subseteq DOMAIN last.ev.strategy_state

\* C17 (SpecVariants): an iteration of the heartbeat loop, suppressed or not,
\* changes no field of IPCStrategy and no field of SimpleTestStrategy other
\* than the frozen copy kept for the offline window: position, stop_loss,
\* peak, trailing flag, strategy_state and seq stay as they are.
C17_HeartbeatKeepsState ==
    [][(last'.op = "heartbeat" /\ now' = now) =>
          /\ UNCHANGED stratVars
          /\ test_mode =>
                \A f \in DOMAIN test \ {"offline_frozen_state"} : test'[f] = test[f]]_vars

\* C17's case: a heartbeat was published from the test strategy while its
\* position was open with trailing active.
C17_Witness ==
    /\ test_mode
    /\ HeartbeatSent
    /\ test.entry_price # None
    /\ test.trailing_stop_active
    /\ last.ev.strategy_state = test.strategy_state

\* The message just published falls into the offline window of the position
\* it belongs to: for a CLOSE the position that was closed, otherwise the
\* position held once the message is built.
InWindowAtPublish ==
    IF last'.ev.type = "strategy_event" /\ last'.ev.position = "CLOSE"
    THEN IsInOfflineWindow(test, now)
    ELSE IsInOfflineWindow(test', now')

\* A trailing activation or update was just processed inside the window.
OfflineUpdate == last' # last /\ last'.op = "process_tick" /\ last'.how = "offline"

\* C19 as stated (SpecVariants): during the offline window of the test
\* strategy no heartbeat and no strategy_event (OPEN, UPDATE or CLOSE) is
\* published, while a trailing activation or update processed in the window
\* moves stop_loss and peak and increments seq.
C19_OfflineWindowSilent ==
    [][/\ (test_mode /\ PublishedNow) => ~InWindowAtPublish
       /\ (test_mode /\ OfflineUpdate) =>
              /\ test'.state_sequence = test.state_sequence + 1
              /\ test'.stop_loss_price # test.stop_loss_price
              /\ test'.peak_price # test.peak_price]_vars

\* C19 without CLOSE: during the offline window no heartbeat, OPEN or UPDATE
\* is published, and updates processed in it advance the state.
C19_OfflineWindowSilentButClose ==
    [][/\ (/\ test_mode /\ PublishedNow
           /\ ~(last'.ev.type = "strategy_event" /\ last'.ev.position = "CLOSE")) =>
              ~InWindowAtPublish
       /\ (test_mode /\ OfflineUpdate) =>
              /\ test'.state_sequence = test.state_sequence + 1
              /\ test'.stop_loss_price # test.stop_loss_price
              /\ test'.peak_price # test.peak_price]_vars

\* The seq stamped last before the offline window began: inside the window
\* only suppressed trailing updates stamp.
WindowStartSeq ==
    LET before == {i \in DOMAIN log : log[i].reason # "offline"}
    IN  log[CHOOSE i \in before : \A j \in before : j <= i].seq

\* C20 as stated (SpecVariants): get_strategy_state called during the offline
\* window returns the snapshot as it was when the window began, however many
\* trailing updates were processed in the window before or between the calls.
C20_FrozenAtWindowStart ==
    (last.op = "get_strategy_state" /\ last.how = "frozen") =>
        last.arg.returned.seq = WindowStartSeq

\* C20 from the first call on: every call during the window returns what the
\* first call in that window returned.
C20_FrozenAtFirstRead ==
    [][(/\ last' # last /\ last'.op = "get_strategy_state" /\ last'.how = "frozen"
        /\ test.offline_frozen_state # None) =>
          last'.arg.returned = test.offline_frozen_state[1]]_vars

\* The offline window of the position held has ended.
AfterWindow(T, clock) ==
    /\ T.entry_time # None
    /\ clock - T.entry_time[1] >= offline_start_delay + offline_duration

\* C21 (SpecVariants): once the offline window of the position held has ended,
\* get_strategy_state returns the live strategy_state, whose seq is that of
\* the last stamp, and drops the frozen copy; an iteration of the heartbeat
\* loop publishes a heartbeat carrying the live state; and a trailing
\* activation or update is published as an UPDATE carrying the state it
\* stamped.
C21_ResumesAfterWindow ==
    [][(test_mode /\ AfterWindow(test, now) /\ now' = now) =>
          /\ last'.op = "get_strategy_state" =>
                /\ last'.arg.returned = test.strategy_state
                /\ last'.arg.returned.seq = log[Len(log)].seq
                /\ test'.offline_frozen_state = None
          /\ last'.op = "heartbeat" =>
                /\ last'.arg.sent
                /\ last'.ev.strategy_state = test.strategy_state
                /\ test'.offline_frozen_state = None
          /\ (last'.op = "process_tick" /\ test'.state_sequence # test.state_sequence) =>
                /\ last'.ev # NoEvent
                /\ last'.ev.position = "UPDATE"
                /\ last'.ev.strategy_state = test'.strategy_state
                /\ last'.ev.strategy_state.seq = test'.state_sequence]_vars

\* C21's case: a frozen copy was taken in the window, a trailing update was
\* processed in the window, and the first read after the window returned the
\* state that update stamped.
C21_Witness ==
    /\ test_mode
    /\ last.op = "get_strategy_state" /\ last.how = "resumed"
    /\ AfterWindow(test, now)
    /\ log[Len(log)].reason = "offline"
    /\ last.arg.returned.seq = log[Len(log)].seq
    /\ test.offline_frozen_state = None

\* The stamps of IPCStrategy, in the order the inputs were processed, are
\* repetitions of OPEN, at most one TRAILING_STOP_ACTIVATED, any number of
\* TRAILING_STOP_UPDATED, CLOSE: an OPEN follows a CLOSE or nothing, an UPDATE
\* or CLOSE follows an OPEN or UPDATE, the activation follows the OPEN
\* directly and an update follows an UPDATE.
LifecycleLog ==
    \A i \in DOMAIN log :
        LET prev == IF i = 1 THEN "CLOSE" ELSE log[i - 1].position
        IN  /\ log[i].position = "OPEN" => prev = "CLOSE"
            /\ log[i].position \in {"UPDATE", "CLOSE"} => prev \in {"OPEN", "UPDATE"}
            /\ log[i].reason = "TRAILING_STOP_ACTIVATED" => prev = "OPEN"
            /\ log[i].reason = "TRAILING_STOP_UPDATED" => prev = "UPDATE"

\* The strategy event just delivered to the watched observer was emitted
\* after every strategy event delivered to it before.
DeliveredInOrder ==
    (DeliveredNow /\ recv'.src[recv'.from][1].type = "strategy_event") =>
        \A t \in Tasks :
            (recv.src[t] # None /\ recv.src[t][1].type = "strategy_event") =>
                recv.src[t][1].seq < recv'.src[recv'.from][1].seq

\* C22 as stated (SpecDelivery): the strategy events of IPCStrategy form
\* repetitions of OPEN, UPDATEs (at most one activation, every update after
\* it), CLOSE in the order the inputs are processed, no UPDATE or CLOSE is
\* emitted without a position, and an observer receives the events in the
\* order they were emitted.
C22_LifecycleOrder == []LifecycleLog /\ [][DeliveredInOrder]_vars

\* C22 for the emission alone: the order in which the events are stamped and
\* handed to broadcast.
C22_LifecycleOrderEmitted == LifecycleLog

\* The snapshot of the strategy that runs.
StateNow == IF test_mode THEN test.strategy_state ELSE strategy_state

SeqOf(snapshot) == IF "seq" \in DOMAIN snapshot THEN snapshot.seq ELSE 0

\* C23 (SpecLifetime): in both variants no operation - open, trailing
\* activation or update, close, start, stop or reset of the test strategy -
\* lowers the sequence counter, and every newly stamped snapshot carries a seq
\* strictly greater than the snapshot it replaces and than every snapshot
\* stamped before.
C23_SeqNeverDecreases ==
    [][/\ SeqNow' >= SeqNow
       /\ StateNow' # StateNow =>
              /\ SeqOf(StateNow') > SeqOf(StateNow)
              /\ SeqOf(StateNow') = SeqNow'
       /\ Len(log') > Len(log) =>
              \A i \in DOMAIN log : log[i].seq < log'[Len(log')].seq]_vars

\* C23's case: the test strategy opened a position, was stopped, was started
\* again and opened the next position.
C23_Witness ==
    /\ test_mode
    /\ log # <<>> /\ log[Len(log)].position = "OPEN"
    /\ \E i, j \in DOMAIN log :
          /\ j < i
          /\ log[j].position = "OPEN"
          /\ log[i].reason = "stopped"

\* C24 as stated (SpecVariants): whatever /api/strategy-events requests, ticks
\* and steps of the sequence tasks interleave, the test strategy never emits
\* two OPEN events without a CLOSE between them.
C24_OneTestPosition ==
    test_mode =>
        \A i, j \in Positions("OPEN") :
            i < j => \E k \in Positions("CLOSE") : i < k /\ k < j

\* C24 for a single request: as long as /api/strategy-events was called at
\* most once, no two OPEN events are emitted without a CLOSE between them.
C24_OneTestPositionPerStart ==
    (test_mode /\ Len(sequence_tasks) <= 1) =>
        \A i, j \in Positions("OPEN") :
            i < j => \E k \in Positions("CLOSE") : i < k /\ k < j

Closes(ev, reason) ==
    /\ ev # NoEvent
    /\ ev.position = "CLOSE"
    /\ ev.reason = reason

\* check_position_management was just called with a tick carrying a price,
\* while a position was open.
PricedTickCall ==
    /\ TickCall
    /\ active_signal # None
    /\ last'.arg.tick_data.k = "num"

\* What C26 says of one call on the position held before it.
FirstMatchWins ==
    LET price == last'.arg.tick_data.v
        hit == StopHit(active_signal.direction, price, active_signal.stop_loss)
    IN  /\ Len(log') <= Len(log) + 1
        /\ TimeLimitExceeded(Strat, now) =>
              /\ Closes(last'.ev, "POSITION_TIME_LIMIT_HIT")
              /\ active_signal' = None
        /\ (~TimeLimitExceeded(Strat, now) /\ hit) =>
              /\ Closes(last'.ev, "STOP_LOSS_HIT")
              /\ Len(log') = Len(log) + 1
              /\ ~trailing_stop_active'

\* C26 as stated (Spec): a call of check_position_management emits at most
\* one event; past the time limit the event is CLOSE/POSITION_TIME_LIMIT_HIT
\* whatever the price; within the time limit with the stop-loss condition
\* holding it is CLOSE/STOP_LOSS_HIT and nothing is trailed.
C26_FirstMatchWins == [][PricedTickCall => FirstMatchWins]_vars

\* C26 for positions whose entry price is not 0.
C26_FirstMatchWinsNonzeroEntry ==
    [][(PricedTickCall /\ active_signal.entry_price # 0) => FirstMatchWins]_vars

\* What C27 says of one call within the time limit.
StopLossBoundary ==
    LET price == last'.arg.tick_data.v
        hit == IF active_signal.direction = "LONG" THEN price <= active_signal.stop_loss
               ELSE price >= active_signal.stop_loss
    IN  /\ Closes(last'.ev, "STOP_LOSS_HIT") <=> hit
        /\ hit => active_signal' = None
        /\ ~hit => active_signal' # None

\* C27 as stated (Spec): within the time limit a LONG position is closed with
\* STOP_LOSS_HIT exactly when the tick's price is at or below the current
\* stop_loss, a SHORT position exactly when it is at or above, and after the
\* close no position exists.
C27_StopLossBoundary ==
    [][(PricedTickCall /\ ~TimeLimitExceeded(Strat, now)) => StopLossBoundary]_vars

\* C27 for positions whose entry price is not 0.
C27_StopLossBoundaryNonzeroEntry ==
    [][(/\ PricedTickCall /\ ~TimeLimitExceeded(Strat, now)
        /\ active_signal.entry_price # 0) => StopLossBoundary]_vars

\* check_position_management was just called with a priced tick on an open
\* position and took neither closing branch: the time limit is not exceeded
\* and the stop-loss condition does not hold.
NotClosingTickCall ==
    /\ PricedTickCall
    /\ ~TimeLimitExceeded(Strat, now)
    /\ IF active_signal.direction = "LONG"
       THEN last'.arg.tick_data.v > active_signal.stop_loss
       ELSE last'.arg.tick_data.v < active_signal.stop_loss

\* process_tick of the test strategy was just called with a priced tick while
\* it held a position; process_tick never closes a position.
PricedTestTick ==
    /\ test_mode
    /\ last' # last
    /\ last'.op = "process_tick"
    /\ last'.arg.tick_data.k = "num"
    /\ test.entry_price # None

\* The call just made emitted exactly one UPDATE event with this reason.
EmitsUpdate(reason) ==
    /\ last'.ev # NoEvent
    /\ last'.ev.type = "strategy_event"
    /\ last'.ev.position = "UPDATE"
    /\ last'.ev.reason = reason

\* The trailing stop a peak implies.
StopBehind(direction, peak) ==
    IF direction = "LONG" THEN peak - trailing_stop_distance
    ELSE peak + trailing_stop_distance

\* What C28 says of one call of IPCStrategy on a position without trailing.
ActivatesAtPrice ==
    LET price == last'.arg.tick_data.v
        direction == active_signal.direction
        activation == active_signal.trailing_activation_price
        reached == IF direction = "LONG" THEN price >= activation
                   ELSE price <= activation
    IN  IF reached
        THEN /\ trailing_stop_active'
             /\ peak_price' = Some(price)
             /\ active_signal' # None
             /\ active_signal'.stop_loss = StopBehind(direction, price)
             /\ state_sequence' = state_sequence + 1
             /\ EmitsUpdate("TRAILING_STOP_ACTIVATED")
        ELSE /\ UNCHANGED stratVars
             /\ last'.ev = NoEvent

\* The same of one call of the test strategy; silent says whether the event
\* may be withheld.
TestActivatesAtPrice(silent) ==
    LET price == last'.arg.tick_data.v
        activation == test.trailing_activation_price[1]
        reached == IF test.direction = "LONG" THEN price >= activation
                   ELSE price <= activation
    IN  IF reached
        THEN /\ test'.trailing_stop_active
             /\ test'.peak_price = Some(price)
             /\ test'.stop_loss_price = Some(StopBehind(test.direction, price))
             /\ test'.state_sequence = test.state_sequence + 1
             /\ IF silent THEN last'.ev = NoEvent
                ELSE EmitsUpdate("TRAILING_STOP_ACTIVATED")
        ELSE /\ test'.trailing_stop_active = test.trailing_stop_active
             /\ test'.peak_price = test.peak_price
             /\ test'.stop_loss_price = test.stop_loss_price
             /\ test'.state_sequence = test.state_sequence
             /\ test'.strategy_state = test.strategy_state
             /\ last'.ev = NoEvent

PeakKept(direction, peak, peak2) ==
    IF direction = "LONG" THEN peak2 >= peak ELSE peak2 <= peak

\* What C29 says of one call of IPCStrategy on a position with trailing
\* active.
TrailsNewPeak ==
    LET price == last'.arg.tick_data.v
        direction == active_signal.direction
        peak == peak_price[1]
        beyond == IF direction = "LONG" THEN price > peak ELSE price < peak
    IN  IF beyond
        THEN /\ trailing_stop_active'
             /\ peak_price' = Some(price)
             /\ active_signal' # None
             /\ active_signal'.stop_loss = StopBehind(direction, price)
             /\ state_sequence' = state_sequence + 1
             /\ EmitsUpdate("TRAILING_STOP_UPDATED")
        ELSE /\ UNCHANGED stratVars
             /\ last'.ev = NoEvent

\* The same of one call of the test strategy; silent says whether the event
\* may be withheld.
TestTrailsNewPeak(silent) ==
    LET price == last'.arg.tick_data.v
        peak == test.peak_price[1]
        beyond == IF test.direction = "LONG" THEN price > peak ELSE price < peak
    IN  IF beyond
        THEN /\ test'.trailing_stop_active
             /\ test'.peak_price = Some(price)
             /\ test'.stop_loss_price = Some(StopBehind(test.direction, price))
             /\ test'.state_sequence = test.state_sequence + 1
             /\ IF silent THEN last'.ev = NoEvent
                ELSE EmitsUpdate("TRAILING_STOP_UPDATED")
        ELSE /\ test'.trailing_stop_active
             /\ test'.peak_price = test.peak_price
             /\ test'.stop_loss_price = test.stop_loss_price
             /\ test'.state_sequence = test.state_sequence
             /\ test'.strategy_state = test.strategy_state
             /\ last'.ev = NoEvent

\* No tick handed to a position that stays open moves its peak against it.
PeakMonotonic ==
    /\ (TickCall /\ active_signal # None /\ active_signal' # None) =>
          PeakKept(active_signal.direction, peak_price[1], peak_price'[1])
    /\ PricedTestTick =>
          PeakKept(test.direction, test.peak_price[1], test'.peak_price[1])

\* C29 as stated (SpecVariants): for an open position with trailing_active
\* true that is not closed on this tick, a tick strictly beyond peak_price
\* (greater for LONG, less for SHORT) sets peak_price to the tick's price,
\* recomputes stop_loss from the new peak, increments seq by one and emits
\* exactly one UPDATE/TRAILING_STOP_UPDATED; a tick equal to the peak or on
\* its unfavourable side changes nothing and emits nothing; peak_price never
\* moves against the position.
C29_TrailingUpdate ==
    [][/\ (NotClosingTickCall /\ trailing_stop_active) => TrailsNewPeak
       /\ (PricedTestTick /\ test.trailing_stop_active) => TestTrailsNewPeak(FALSE)
       /\ PeakMonotonic]_vars

\* C29 with the offline window (SpecVariants): the update moves peak_price
\* and stop_loss and increments seq by one in every case, and emits exactly
\* one UPDATE/TRAILING_STOP_UPDATED unless the test strategy is in its
\* offline window, where it emits nothing; a tick equal to the peak or on its
\* unfavourable side changes nothing; peak_price never moves against the
\* position.
C29_TrailingUpdateOutsideWindow ==
    [][/\ (NotClosingTickCall /\ trailing_stop_active) => TrailsNewPeak
       /\ (PricedTestTick /\ test.trailing_stop_active) =>
              TestTrailsNewPeak(IsInOfflineWindow(test, now))
       /\ PeakMonotonic]_vars

\* C29's case: a SHORT position of the test strategy with trailing active,
\* outside its offline window, met a tick below its peak and published the
\* update with the stop trailing_stop_distance above the new peak.
C29_Witness ==
    /\ test_mode
    /\ test.direction = "SHORT"
    /\ last.op = "process_tick"
    /\ last.how = "update"
    /\ last.ev.reason = "TRAILING_STOP_UPDATED"
    /\ ~IsInOfflineWindow(test, now)
    /\ test.trailing_stop_active
    /\ test.peak_price = Some(last.arg.tick_data.v)
    /\ test.stop_loss_price = Some(last.arg.tick_data.v + trailing_stop_distance)

\* A call of check_position_management just emitted a CLOSE event.
ClosedNow ==
    /\ TickCall
    /\ last'.ev # NoEvent
    /\ last'.ev.position = "CLOSE"

\* What C30 says of a CLOSE event, of the position held before the call and
\* of the price the call read from its tick; pnl_percentage is the exact
\* fraction pnl * 100 / entry_price.
PnlOnClose ==
    LET d == last'.ev.event_data
        entry == active_signal.entry_price
        exit == Float(TickGetP(last'.arg.tick_data)).v
        pnl == IF active_signal.direction = "LONG" THEN exit - entry ELSE entry - exit
    IN  /\ last'.ev.reason \in {"POSITION_TIME_LIMIT_HIT", "STOP_LOSS_HIT"}
        /\ d.direction = active_signal.direction
        /\ d.entry_price = entry
        /\ d.current_price = exit
        /\ d.pnl = pnl
        /\ entry # 0
        /\ d.pnl_percentage = [num |-> pnl * 100, den |-> entry]

\* C30 (Spec): every CLOSE event of IPCStrategy, on the time-limit path and
\* on the stop-loss path, carries pnl = exit_price - entry_price for LONG and
\* entry_price - exit_price for SHORT, and pnl_percentage = pnl / entry_price
\* * 100, with exit_price the price of the tick that triggered the close and
\* entry_price the entry of the position being closed; and CLOSE events come
\* from no other call.
C30_PnlOnClose ==
    [][/\ ClosedNow => (active_signal # None /\ PnlOnClose)
       /\ (PublishedNow /\ last'.ev.type = "strategy_event"
              /\ last'.ev.position = "CLOSE") => TickCall]_vars

\* C30's case: a SHORT position was closed at the time limit by a tick below
\* its entry, and the CLOSE event carries the gain.
C30_Witness ==
    /\ last.op = "check_position_management"
    /\ last.how = "close"
    /\ last.ev.reason = "POSITION_TIME_LIMIT_HIT"
    /\ last.ev.event_data.direction = "SHORT"
    /\ last.ev.event_data.pnl > 0
    /\ last.ev.event_data.pnl =
          last.ev.event_data.entry_price - last.arg.tick_data.v
    /\ active_signal = None

\* The stop-loss path of C30: a SHORT position was closed by a tick at or
\* above its stop, and the CLOSE event carries the loss.
StopLossCloseCarriesLoss ==
    /\ last.op = "check_position_management"
    /\ last.how = "close"
    /\ last.ev.reason = "STOP_LOSS_HIT"
    /\ last.ev.event_data.direction = "SHORT"
    /\ last.ev.event_data.pnl < 0
    /\ active_signal = None

\* What C31 says of one call with a priced tick on an open position: past
\* the time limit it closes the position with POSITION_TIME_LIMIT_HIT, at
\* exactly the time limit it does not.
ClosesPastTimeLimit ==
    LET elapsed == now - active_signal.entry_time
    IN  /\ elapsed > max_position_duration_hours =>
              /\ Closes(last'.ev, "POSITION_TIME_LIMIT_HIT")
              /\ active_signal' = None
        /\ elapsed = max_position_duration_hours =>
              ~Closes(last'.ev, "POSITION_TIME_LIMIT_HIT")

\* C31 as stated (Spec): every position opened by IPCStrategy, whatever entry
\* price it took from the latest tick, 0 included, is closed by the first
\* tick processed after strictly more than max_position_duration has elapsed
\* since entry, with CLOSE/POSITION_TIME_LIMIT_HIT; a tick processed at
\* exactly max_position_duration does not close it for the time limit.
C31_TimeLimitCloses == [][PricedTickCall => ClosesPastTimeLimit]_vars

\* C31 for positions whose entry price is not 0.
C31_TimeLimitClosesNonzeroEntry ==
    [][(PricedTickCall /\ active_signal.entry_price # 0) => ClosesPastTimeLimit]_vars

\* A position with entry price 0 outlived the time limit: the last tick was
\* processed past it and the position is still open.
OutlivesTimeLimit ==
    /\ active_signal # None
    /\ active_signal.entry_price = 0
    /\ last.op = "check_position_management"
    /\ last.arg.tick_data.k = "num"
    /\ last.how = "error"
    /\ now - active_signal.entry_time > max_position_duration_hours

\* The stamp was published as a strategy event.
IsEvent(stamp) == stamp.position # "NONE"

\* Every stamp so far took the next sequence number, the counter stands at
\* the last of them, and in IPCStrategy it equals the event counter.
SeqCountsStamps ==
    /\ \A i \in DOMAIN log : log[i].seq = i
    /\ SeqNow = Len(log)
    /\ ~test_mode => state_sequence = event_counter

\* No operation moves the sequence counter by more than one.
SeqStepsByOne == SeqNow' \in {SeqNow, SeqNow + 1}

\* C32 as stated (SpecLifetime): in both variants each state mutation
\* increments seq by exactly one and publishes exactly one strategy event
\* carrying that seq, so successive strategy events carry seq values that
\* differ by exactly 1, also across start and reset of the test strategy and
\* across its offline window; in IPCStrategy seq equals the event counter.
C32_SeqSkipMeansLoss ==
    /\ [](SeqCountsStamps /\ \A i \in DOMAIN log : IsEvent(log[i]))
    /\ [][SeqStepsByOne]_vars

\* C32 with the silent stamps (SpecLifetime): each stamp increments seq by
\* exactly one; in IPCStrategy every stamp publishes one strategy event and
\* seq equals the event counter; in the test strategy every stamp publishes
\* one strategy event except the refresh at start and at stop and a trailing
\* activation or update inside the offline window, so successive strategy
\* events differ by one more than the number of such stamps between them.
C32_SeqCountsStamps ==
    /\ [](/\ SeqCountsStamps
          /\ \A i \in DOMAIN log :
                \/ IsEvent(log[i])
                \/ test_mode /\ log[i].reason \in {"started", "stopped", "offline"})
    /\ [][SeqStepsByOne]_vars

\* C32's case: the test strategy published an event, stamped a trailing
\* change silently inside its offline window, and published the next event
\* with a seq greater by 2.
C32_Witness ==
    /\ test_mode
    /\ \E i \in DOMAIN log :
          /\ i + 2 \in DOMAIN log
          /\ IsEvent(log[i])
          /\ log[i + 1].reason = "offline"
          /\ IsEvent(log[i + 2])
          /\ log[i + 2].seq = log[i].seq + 2

\* A position of IPCStrategy was just opened.
Opens == active_signal = None /\ active_signal' # None

\* The step is the poller handing a 2-hour prediction to the strategy: the
\* one it has just seen for the first time, or the one whose broadcast it was
\* suspended in.
PollerHandsOver ==
    /\ pc'["tick"] = pc["tick"]
    /\ latest_tick' = latest_tick
    /\ pc'["pred"] \in {"idle", "event"}
    /\ \/ /\ pc["pred"] = "idle"
          /\ last_predicted_times'[2] # last_predicted_times[2]
       \/ /\ pc["pred"] = "prediction"
          /\ predArg.tf = 2

\* The poller begins to handle a prediction only when its predicted_time
\* differs from the one it saw last for that horizon, which it then remembers;
\* nothing else changes what it remembers.
OnlyNewHandled ==
    /\ (pc["pred"] = "idle" /\ pc'["pred"] = "prediction") =>
          last_predicted_times'[predArg'.tf] # last_predicted_times[predArg'.tf]
    /\ last_predicted_times' # last_predicted_times => pc["pred"] = "idle"

\* C33 (SpecPoller): a position of IPCStrategy is opened only by the step in
\* which the poller hands a newly seen 2-hour prediction to the strategy,
\* with a latest tick available and the server running IPCStrategy; no tick,
\* no 1-hour or 4-hour prediction and no prediction repeating the
\* predicted_time seen last opens a position, so after a close a position
\* opens only when the poller hands over such a prediction again.
C33_WhatOpens ==
    [][/\ Opens => (~test_mode /\ latest_tick # None /\ PollerHandsOver)
       /\ OnlyNewHandled]_vars

\* C33's case: a position was opened, closed by a tick and opened again, and
\* the poller has seen a second 2-hour prediction by then.
C33_Witness ==
    /\ ~test_mode
    /\ Len(log) = 3
    /\ log[1].position = "OPEN" /\ log[2].position = "CLOSE" /\ log[3].position = "OPEN"
    /\ active_signal # None
    /\ last_predicted_times[2] = Some(2)

\* The test server saw a new 2-hour prediction with a latest tick available
\* and opened nothing.
TestModeIgnoresPrediction ==
    /\ test_mode
    /\ latest_tick # None
    /\ last_predicted_times[2] # None
    /\ active_signal = None

\* The snapshot a position of either variant implies at sequence number n:
\* bare when there is none, the position's fields otherwise.
ViewOfPosition(n) ==
    IF test_mode
    THEN IF test.entry_price = None THEN [seq |-> n]
         ELSE [SL |-> test.stop_loss_price, TP |-> test.target_price,
               ENTRY |-> test.entry_price, TSA |-> test.trailing_activation_price,
               TRAILING_STOP_ACTIVE |-> test.trailing_stop_active, seq |-> n]
    ELSE IF active_signal = None THEN [seq |-> n]
         ELSE [SL |-> active_signal.stop_loss, TP |-> active_signal.target,
               ENTRY |-> active_signal.entry_price,
               TSA |-> active_signal.trailing_activation_price,
               TRAILING_STOP_ACTIVE |-> trailing_stop_active, seq |-> n]

\* strategy_state agrees with the position and the sequence counter; before
\* the first stamp it is the empty dict of the constructor.
StateAgrees ==
    IF SeqNow = 0 THEN DOMAIN StateNow = {}
    ELSE StateNow = ViewOfPosition(SeqNow)

\* C34 as stated (SpecTicks): between the steps of the handlers of both
\* variants, that is at every await, strategy_state agrees with the position:
\* without a position it has none of SL, TP, ENTRY, TSA, TRAILING_STOP_ACTIVE,
\* with a position these equal the position's stop_loss, target, entry_price,
\* trailing_activation_price and trailing flag, and seq equals the sequence
\* counter.
C34_NoHalfMutatedState == StateAgrees

\* C34 for positions whose entry price is not 0.
C34_NoHalfMutatedStateNonzeroEntry ==
    (test_mode /\ test.entry_price = Some(0)) \/ StateAgrees

\* The test strategy holds a position entered at 0.0 and its snapshot shows
\* none.
BareSnapshotWithPosition ==
    /\ test_mode
    /\ test.entry_price = Some(0)
    /\ test.entry_time # None
    /\ DOMAIN test.strategy_state = {"seq"}

\* The task begins the broadcast of the strategy event stamped in this step.
PublishesTo(task) ==
    /\ Len(log') > Len(log)
    /\ pc[task] # "event"
    /\ pc'[task] = "event"

\* The message handed to broadcast is the transition just stamped: the
\* snapshot, the numbers, and the position's values in event_data (of the
\* position opened or updated, or of the one that was closed).
StampedMessage(task) ==
    LET msg == bc'[task].msg
        stamp == log'[Len(log')]
    IN  /\ msg.type = "strategy_event"
        /\ msg.strategy_state = strategy_state'
        /\ msg.strategy_state.seq = state_sequence'
        /\ msg.strategy_state.seq = stamp.seq
        /\ msg.event_n = event_counter'
        /\ msg.position = stamp.position
        /\ msg.reason = stamp.reason
        /\ msg.position = "OPEN" =>
              /\ active_signal = None
              /\ msg.event_data.entry_price = active_signal'.entry_price
              /\ msg.event_data.signal_direction = active_signal'.direction
              /\ msg.event_data.stop_loss_price = active_signal'.stop_loss
        /\ msg.position = "UPDATE" =>
              /\ msg.event_data.entry_price = active_signal'.entry_price
              /\ msg.event_data.stop_loss_price = active_signal'.stop_loss
              /\ Some(msg.event_data.peak_price) = peak_price'
        /\ msg.position = "CLOSE" =>
              /\ active_signal' = None
              /\ msg.event_data.entry_price = active_signal.entry_price
              /\ msg.event_data.direction = active_signal.direction

\* While a task stays suspended in the broadcast of an event, the message it
\* sends is the one it began with.
HeldUnchanged ==
    \A task \in Tasks :
        (pc[task] = "event" /\ pc'[task] = "event") => bc'[task].msg = bc[task].msg

\* The strategy event just delivered to the watched observer is the message
\* held by the broadcast that sent it.
DeliversHeld ==
    (DeliveredNow /\ recv'.src[recv'.from][1].type = "strategy_event") =>
        LET b == bc'[recv'.from]
        IN  /\ b.active
            /\ b.cur = recv.c
            /\ b.msg.type = "strategy_event"
            /\ recv'.any = Some(b.msg.strategy_state.seq)
            /\ b.msg.position = log'[b.msg.strategy_state.seq].position
            /\ b.msg.reason = log'[b.msg.strategy_state.seq].reason
            /\ (DOMAIN b.msg.strategy_state = {"seq"}) = log'[b.msg.strategy_state.seq].absent

\* C35 (SpecDelivery): events are write-once snapshots. The strategy_state
\* and event_data of the message handed to broadcast are the values stamped
\* for the transition, the message does not change while the broadcast is
\* suspended, whatever transitions are processed meanwhile, and what an
\* observer is sent is that message.
C35_WriteOnce ==
    [][/\ \A task \in Tasks : PublishesTo(task) => StampedMessage(task)
       /\ HeldUnchanged
       /\ DeliversHeld]_vars

\* C35's case: the watched observer was just sent an event whose snapshot is
\* no longer the strategy's, after it had been sent a later event by another
\* task.
C35_Witness ==
    /\ recv.from \in Tasks
    /\ bc[recv.from].active
    /\ bc[recv.from].cur = recv.c
    /\ bc[recv.from].msg.type = "strategy_event"
    /\ recv.any = Some(bc[recv.from].msg.strategy_state.seq)
    /\ bc[recv.from].msg.strategy_state # strategy_state
    /\ \E u \in Tasks \ {recv.from} :
          /\ recv.src[u] # None
          /\ recv.src[u][1].seq > bc[recv.from].msg.strategy_state.seq

\* The strategy object offered every kind of latest tick: with a price, with
\* none, with null and with a string that is no number.
LatestTicks == OpenTicks \cup Malformed

NextSignal ==
    \/ \E prediction \in Predictions, tick_data \in LatestTicks :
          CallCheckSignalTrigger(prediction, tick_data)
    \/ \E tick_data \in CloseTicks : CallCheckPositionManagement(tick_data)
    \/ ClockTick

SpecSignal == Init /\ [][NextSignal]_vars

\* check_signal_trigger left the strategy as it was and emitted nothing.
OpensNothing ==
    /\ last'.ev = NoEvent
    /\ UNCHANGED stratVars

\* A position is opened at the price its latest tick carried and keeps that
\* entry price while it is open.
EntryFromTick ==
    /\ (SignalCall /\ active_signal = None /\ active_signal' # None) =>
          /\ last'.arg.tick_data.k = "num"
          /\ active_signal'.entry_price = last'.arg.tick_data.v
    /\ (active_signal # None /\ active_signal' # None) =>
          active_signal'.entry_price = active_signal.entry_price
    /\ (active_signal = None /\ active_signal' # None) => SignalCall

\* C36 as stated (SpecSignal): check_signal_trigger called without a position
\* and with a latest tick that has no price field or a non-numeric one, or
\* with a prediction without a parseable prediction_time, opens nothing,
\* leaves seq and the event counter alone and emits no event; hence every
\* open position was entered at a price carried by a tick.
C36_BadInputOpensNothing ==
    [][/\ (/\ SignalCall
           /\ active_signal = None
           /\ \/ last'.arg.tick_data \in Malformed
              \/ last'.arg.prediction.prediction_time.k \in {"none", "bad"})
          => OpensNothing
       /\ EntryFromTick]_vars

\* C36 for the inputs that raise or return early: a latest tick whose price
\* is null or a non-numeric string, or a prediction_time that is missing or
\* does not parse; and for the positions opened from a tick with a price field.
C36_UnparseableOpensNothing ==
    [][/\ (/\ SignalCall
           /\ active_signal = None
           /\ \/ last'.arg.tick_data.k \in {"null", "str"}
              \/ last'.arg.prediction.prediction_time.k \in {"none", "bad"})
          => OpensNothing
       /\ (SignalCall /\ last'.arg.tick_data.k # "missing") => EntryFromTick]_vars

\* A position was just opened from a latest tick without a price field, at
\* entry price 0.
OpenedWithoutPrice ==
    /\ last.op = "check_signal_trigger"
    /\ last.arg.tick_data.k = "missing"
    /\ last.how = "open"
    /\ last.ev.position = "OPEN"
    /\ active_signal # None
    /\ active_signal.entry_price = 0
    /\ state_sequence = 1 /\ event_counter = 1

\* Calls with null or string prices and with missing or unparseable
\* prediction times were made and ended in the error handler or the early
\* return.
RejectedBadInput ==
    /\ last.op = "check_signal_trigger"
    /\ last.ev = NoEvent
    /\ \/ last.arg.tick_data.k \in {"null", "str"} /\ last.how = "error"
                /\ last.arg.prediction.prediction_time.k = "ok"
       \/ last.arg.prediction.prediction_time.k = "none" /\ last.how = "no_time"

\* The stop a position of IPCStrategy must have: the initial one while
\* trailing has not been activated, the trailed one behind the peak, which is
\* at or beyond the activation price, once it has.
StopMatchesTrailing ==
    active_signal # None =>
        LET long == active_signal.direction = "LONG"
            entry == active_signal.entry_price
        IN  IF ~trailing_stop_active
            THEN active_signal.stop_loss =
                    IF long THEN entry - initial_stop_loss_points
                    ELSE entry + initial_stop_loss_points
            ELSE /\ peak_price # None
                 /\ active_signal.stop_loss =
                       IF long THEN peak_price[1] - trailing_stop_distance
                       ELSE peak_price[1] + trailing_stop_distance
                 /\ IF long THEN peak_price[1] >= active_signal.trailing_activation_price
                    ELSE peak_price[1] <= active_signal.trailing_activation_price

\* Trailing, once active, stays active while the position stays open.
TrailingStays ==
    (active_signal # None /\ trailing_stop_active /\ active_signal' # None) =>
        trailing_stop_active'

\* C37 (Spec): while IPCStrategy holds a position, the stop is the initial
\* one (entry minus or plus initial_stop_loss_points) as long as the trailing
\* flag is false, and once the flag is true the stop is the peak minus or plus
\* trailing_stop_distance with the peak at or beyond the activation price; the
\* flag never returns to false while the position stays open.
C37_StopInvariant == []StopMatchesTrailing /\ [][TrailingStays]_vars

\* C37's case: a SHORT position whose stop has been trailed behind a peak
\* beyond the activation price, by an update after the activation.
C37_Witness ==
    /\ active_signal # None
    /\ active_signal.direction = "SHORT"
    /\ trailing_stop_active
    /\ peak_price # None
    /\ peak_price[1] < active_signal.trailing_activation_price
    /\ active_signal.stop_loss = peak_price[1] + trailing_stop_distance
    /\ last.op = "check_position_management"
    /\ last.ev # NoEvent
    /\ last.ev.reason = "TRAILING_STOP_UPDATED"

\* A CLOSE event was just handed to broadcast, by either variant.
CloseEmitted ==
    /\ PublishedNow
    /\ last'.ev.type = "strategy_event"
    /\ last'.ev.position = "CLOSE"

\* The CLOSE event of IPCStrategy carries the entry price and direction of
\* the position held before the call, and the PnL computed from them.
IpcCloseCarriesPosition ==
    LET d == last'.ev.event_data
        entry == active_signal.entry_price
        pnl == IF active_signal.direction = "LONG" THEN d.current_price - entry
               ELSE entry - d.current_price
    IN  /\ active_signal # None
        /\ d.entry_price = entry
        /\ d.direction = active_signal.direction
        /\ d.pnl = pnl
        /\ d.pnl_percentage = [num |-> pnl * 100, den |-> entry]

\* The same of SimpleTestStrategy, except for the entry price itself.
TestCloseCarriesPnl ==
    LET d == last'.ev.event_data
        entry == test.entry_price[1]
        pnl == IF test.direction = "LONG" THEN d.current_price - entry
               ELSE entry - d.current_price
    IN  /\ test.entry_price # None
        /\ d.direction = test.direction
        /\ d.pnl = pnl
        /\ d.pnl_percentage = [num |-> pnl * 100, den |-> entry]

\* C38 as stated (SpecVariants): in both variants the event_data of every
\* CLOSE event carries the entry_price and direction of the position being
\* closed, the same the preceding OPEN carried, with pnl and pnl_percentage
\* computed from that entry price.
C38_CloseCarriesPosition ==
    [][CloseEmitted =>
          IF test_mode
          THEN TestCloseCarriesPnl /\ last'.ev.event_data.entry_price = test.entry_price
          ELSE IpcCloseCarriesPosition]_vars

\* C38 without the entry_price field of SimpleTestStrategy's CLOSE event.
C38_CloseCarriesPnl ==
    [][CloseEmitted =>
          IF test_mode THEN TestCloseCarriesPnl ELSE IpcCloseCarriesPosition]_vars

\* SimpleTestStrategy closed a position at a gain or loss and the CLOSE event
\* carries no entry price.
CloseWithoutEntryPrice ==
    /\ test_mode
    /\ last.op = "exit_trade"
    /\ last.ev # NoEvent
    /\ last.ev.position = "CLOSE"
    /\ last.ev.event_data.entry_price = None
    /\ last.ev.event_data.pnl # 0
    /\ \E i \in DOMAIN log : log[i].position = "OPEN"

\* start_delayed is called: it returns at once when the strategy is running,
\* otherwise it goes to sleep for delay_seconds.
StartDelayed ==
    /\ test_mode
    /\ IF test.is_running
       THEN /\ TestCall("start_delayed", [n |-> Len(sequence_tasks)],
                        Ret(test, NoEvent, "ignored"))
            /\ UNCHANGED sequence_tasks
       ELSE /\ Len(sequence_tasks) < MaxStarts
            /\ TestCall("start_delayed", [n |-> Len(sequence_tasks)],
                        Ret(test, NoEvent, "pending"))
            /\ sequence_tasks' = Append(sequence_tasks, SequenceTask("start_delay", now))

\* start_delayed after its sleep: start() resets, stamps and creates the
\* sequence task.
StartDelayedWakes(i) ==
    /\ sequence_tasks[i].at = "start_delay"
    /\ Due(sequence_tasks[i])
    /\ TestCall("start", [n |-> i], Start(test))
    /\ sequence_tasks' = [sequence_tasks EXCEPT ![i] = SequenceTask("entry_delay", now)]

\* The test strategy started through start_delayed only and not stopped, up
\* to the simulation of its trade (the clock of a run ends before the exit).
InitDelayed == InitVariants /\ test_mode

NextDelayed ==
    \/ StartDelayed
    \/ \E i \in DOMAIN sequence_tasks : StartDelayedWakes(i)
    \/ \E i \in DOMAIN sequence_tasks : SequenceEnters(i)
    \/ \E i \in DOMAIN sequence_tasks, tick_data \in TestTicks : SimulatedTick(i, tick_data)
    \/ TestHeartbeat
    \/ TestClockTick

SpecDelayed == InitDelayed /\ [][NextDelayed]_vars

\* The start requests still asleep, and the sequence tasks created so far.
PendingStarts == {i \in DOMAIN sequence_tasks : sequence_tasks[i].at = "start_delay"}
SequencesStarted == {i \in DOMAIN sequence_tasks : sequence_tasks[i].at # "start_delay"}

StartDelayedCall == last' # last /\ last'.op = "start_delayed"
StartCall == last' # last /\ last'.op = "start"

\* A request that is ignored: it changes nothing of the strategy and leaves
\* no start behind.
RequestIgnored == UNCHANGED <<test, sequence_tasks>>

\* C39 as stated (SpecDelayed): whatever the number of start_delayed calls,
\* overlapping ones included, at most one sequence task is started while the
\* strategy is not stopped; a start request that arrives while a start is
\* pending or while the strategy is running is ignored, and so no start()
\* resets the state or stamps a seq while the strategy is running.
C39_OneSequence ==
    /\ [](Cardinality(SequencesStarted) <= 1)
    /\ [][/\ (StartDelayedCall /\ (test.is_running \/ PendingStarts # {})) => RequestIgnored
          /\ StartCall => ~test.is_running]_vars

\* C39 for the requests that arrive while the strategy is running: they are
\* ignored, and every sequence task comes from a request that arrived before
\* the strategy ran.
C39_RunningIgnoresStart ==
    [][/\ (StartDelayedCall /\ test.is_running) => RequestIgnored
       /\ Len(sequence_tasks') > Len(sequence_tasks) => ~test.is_running
       /\ StartCall => \E i \in PendingStarts : sequence_tasks'[i].at = "entry_delay"]_vars

\* Two requests overlapped in the delay and each started a sequence: two
\* "started" stamps, the second while the strategy was running.
TwoSequencesFromOverlap ==
    /\ Cardinality(SequencesStarted) = 2
    /\ Len(log) >= 2
    /\ log[1].reason = "started" /\ log[2].reason = "started"
    /\ test.is_running

\* A request arrived while the strategy was running and was ignored.
IgnoredWhileRunning ==
    /\ last.op = "start_delayed"
    /\ last.how = "ignored"
    /\ test.is_running
    /\ Cardinality(SequencesStarted) = 1

====
